---- MODULE Spec2Model ----
(***************************************************************************)
(* VoiceCraft jobs page (src/js/error.js, jobs-page script, lines 806-1132) *)
(* The model follows one page instance of jobs.html: the session check,     *)
(* initPage, the current-job poller (startPolling / pollOnce /              *)
(* updateCurrentJobUI), the job-list fetch and sign-out.  Every action is   *)
(* one run-to-completion step of the browser's event loop: an event or      *)
(* timer callback up to its first await, or the continuation that runs      *)
(* when an awaited network call settles (with the microtask continuations   *)
(* of its callers).  The REST backend is external: it is modelled as a job  *)
(* record whose status moves forward only, and as answers that either       *)
(* reflect that record at the time of answering or are failures.            *)
(***************************************************************************)
EXTENDS Integers, Sequences, FiniteSets, TLC

\* ---------------------------------------------------------------- bounds
\* number of validated submits of the upload form in one behaviour
MaxSubmits == 2
\* number of times the interval timer may fire in one behaviour
MaxTicks == 2
\* number of poll requests that may be outstanding at once
MaxInFlight == 2
\* length of the longest job list the backend answers with
MaxJobs == 3
\* number of clicks on card buttons
MaxClicks == 2

\* ------------------------------------------------------------- constants
POLL_INTERVAL_MS == 4000

Null == "null"
JobIds == {"j1"}
UserIds == {"u1"}
Keys == {"k1"}
Metas == {"meta1"}
Token == "jwt"
DefaultFailText == "Processing failed. Please try again."

\* ------------------------------------------------------------- variables
VARIABLES
    page,            \* "loading" | "authWait" | "ready" | "redirected"
    store,           \* sessionStorage: currentJobId, currentJobMeta, userId
    currentJobId,    \* module variable currentJobId
    idToken,         \* module variable idToken
    pollTimer,       \* module variable pollTimer: Null or an interval id
    liveTimers,      \* interval ids the browser will still fire
    timersCreated,   \* number of setInterval calls so far
    startPc,         \* position of startPolling: "idle" | "awaitFirst" | "done"
    polls,           \* outstanding GET /jobs/{jobId} requests
    srv,             \* the job record held by the REST backend
    appVisible,      \* #app shown
    sectionVisible,  \* #current-job-section shown
    panel,           \* the current-job panel
    listUI,          \* visibility of jobs-loading / jobs-list / jobs-empty / jobs-error
    listInFlight,    \* outstanding GET /jobs?userId= requests
    dlInFlight,      \* outstanding GET /download-url requests of the panel
    dlRequests,      \* every key a download link was requested for, in order
    pollReloads,     \* loadAllJobs calls made by pollOnce
    ticks,           \* timer callbacks run so far
    handledLog,      \* every poll response handled so far, in order
    \* --- main page (src/js/scripts.js): the upload form
    form,            \* checked category / audio / voice and the file input's file
    picked,          \* the file of the latest file-input change event
    fileError,       \* text of #file-error
    formError,       \* text of #form-error
    formErrorShown,  \* #form-error visible
    submitDisabled,  \* #submit-btn disabled
    upPc,            \* position of handleVideoFormSubmit: "idle" | "creds" | "put" | "done"
    up,              \* its locals: jobId, userId, voice, category, audio, file
    uuids,           \* crypto.randomUUID() calls so far
    credsCalls,      \* getAWSCredentials() calls so far
    puts,            \* every s3.putObject request issued, in order
    \* --- jobs page: the rendered job list
    srvJobs,         \* the user's other jobs held by the REST backend
    fetched,         \* the array a GET /jobs?userId= response carried
    cards,           \* children of #jobs-list, in order
    deletes,         \* outstanding DELETE /jobs/{jobId} requests of handleDeleteJob
    cardDls,         \* outstanding GET /download-url requests of handleDownload
    alerts,          \* texts of the alert() dialogs raised so far, in order
    opened,          \* URLs given to window.open
    clicks,          \* confirmed clicks on card buttons so far
    declined,        \* the confirm() dialogs the user has declined
    authSent,        \* Authorization header values sent with REST requests so far
    screen,          \* which screen of the main page is shown: "login", "main" ("none": page not loaded)
    loginPc,         \* handleLogin: "idle" or "auth" (authenticateUser outstanding)
    loginDisabled,   \* disabled state of the login form's submit button
    loginError,      \* text of #login-error ("" when hidden)
    errPc,           \* error page: "app", "nav" (navigating to error.html), "error" (displayed)
    errView,         \* what displayError rendered last
    recorded,        \* <<arguments>> of the latest triggerError call not yet displayed
    triggers,        \* triggerError calls so far
    displays,        \* error page displays so far
    cbPc,            \* callback page: "closed", "exchange", "error", "index", "app"
    cbParams,        \* query string the callback page was opened with
    cbError,         \* text of #error-message on the callback page ("" while hidden)
    exchanged,       \* authorisation codes posted to the token endpoint
    cbResp,          \* <<answer>> of the token endpoint once it has settled
    signupStepShown, \* #signup-step is visible
    verifyStepShown, \* #verify-step is visible
    pendingCognitoUser, \* the user object kept between the two steps, Null before
    signupError,     \* text of #signup-error ("" when hidden)
    verifyError,     \* [text, type] of #verify-error
    fieldErrors,     \* ids of the field error elements that carry a message
    signupBtnDisabled, \* the registration form's submit button
    verifyBtnDisabled, \* the verification form's submit button
    resendDisabled,  \* #resend-code-btn
    providerCalls,   \* identity provider calls of the sign-up page, with their results
    lastForm,        \* <<values>> of the registration form at its latest submit
    submits,         \* registration form submits so far
    verifies,        \* verification submits and resend clicks so far
    signupSuccess,   \* session store key signupSuccess, Null when absent
    suPage,          \* "signup", or "index" after the redirect
    sdkSession,      \* the identity SDK's stored session: "none", "valid", "expired"
    pendingChecks,   \* getSession calls whose callback has not run yet
    checks,          \* checkAuthState calls made by the visibility listener
    firstCheckDone,  \* the session check made at page load has completed
    loginScreenHidden, \* #login-screen carries d-none
    mainScreenHidden,  \* #main-screen carries d-none
    sinceSignOut,    \* a sign-out was confirmed and no login has succeeded since
    delivered        \* what the identity SDK's latest callback delivered

vars == <<page, store, currentJobId, idToken, pollTimer, liveTimers,
          timersCreated, startPc, polls, srv, appVisible, sectionVisible,
          panel, listUI, listInFlight, dlInFlight, dlRequests, pollReloads,
          ticks, handledLog, form, picked, fileError, formError, formErrorShown,
          submitDisabled, upPc, up, uuids, credsCalls, puts, srvJobs, fetched, cards,
          deletes, cardDls, alerts, opened, clicks, declined, authSent,
          screen, loginPc, loginDisabled, loginError,
          errPc, errView, recorded, triggers, displays,
          cbPc, cbParams, cbError, exchanged, cbResp,
          signupStepShown, verifyStepShown, pendingCognitoUser, signupError,
          verifyError, fieldErrors, signupBtnDisabled, verifyBtnDisabled,
          resendDisabled, providerCalls, lastForm, submits, verifies,
          signupSuccess, suPage,
          sdkSession, pendingChecks, checks, firstCheckDone, loginScreenHidden,
          mainScreenHidden, sinceSignOut, delivered>>

SessionVars == <<sdkSession, pendingChecks, checks, firstCheckDone, loginScreenHidden,
                 mainScreenHidden, sinceSignOut, delivered>>
LoginVars == <<screen, loginPc, loginDisabled, loginError, SessionVars>>
ErrorVars == <<errPc, errView, recorded, triggers, displays>>
CallbackVars == <<cbPc, cbParams, cbError, exchanged, cbResp>>
SignupVars == <<signupStepShown, verifyStepShown, pendingCognitoUser, signupError,
                verifyError, fieldErrors, signupBtnDisabled, verifyBtnDisabled,
                resendDisabled, providerCalls, lastForm, submits, verifies,
                signupSuccess, suPage>>
PagesVars == <<ErrorVars, CallbackVars, SignupVars>>
UploadVars == <<form, picked, fileError, formError, formErrorShown, submitDisabled,
                upPc, up, uuids, credsCalls, puts, LoginVars, PagesVars>>
RenderVars == <<srvJobs, fetched, cards, deletes, cardDls, alerts, opened, clicks, declined>>

\* ------------------------------------------------------------- responses
NoResp == [code |-> -1, body |-> "none", status |-> "", outputKey |-> "", errorMessage |-> ""]
NetFail == [code |-> 0, body |-> "none", status |-> "", outputKey |-> "", errorMessage |-> ""]
Http(c) == [code |-> c, body |-> "none", status |-> "", outputKey |-> "", errorMessage |-> ""]
Malformed == [code |-> 200, body |-> "malformed", status |-> "", outputKey |-> "", errorMessage |-> ""]
JobBody(j) == [code |-> 200, body |-> "job", status |-> j.status, outputKey |-> j.outputKey, errorMessage |-> j.errorMessage]

AbsentJob == [status |-> "ABSENT", outputKey |-> "", errorMessage |-> ""]
LiveJob(s) == [status |-> s, outputKey |-> "", errorMessage |-> ""]

\* the job records the backend can hold
ServerJobs ==
    {AbsentJob} \cup {LiveJob(s) : s \in {"PENDING", "PROCESSING"}}
        \cup {[status |-> "COMPLETE", outputKey |-> k, errorMessage |-> ""] : k \in Keys \cup {""}}
        \cup {[status |-> "FAILED", outputKey |-> "", errorMessage |-> m] : m \in {"boom", ""}}

\* the answers GET /jobs/{jobId} can produce while the backend holds j
Answers(j) ==
    {NetFail, Http(500), Malformed}
        \cup (IF j.status = "ABSENT" THEN {Http(404)} ELSE {JobBody(j)})


\* --------------------------------------------------------------- helpers
\* response.ok
IsOk(code) == code >= 200 /\ code <= 299

\* JavaScript truthiness of a stored string
Truthy(v) == v # Null /\ v # ""

\* variant: PROCESSING is taken for a terminal status as well
IsTerminalStatusEager(s) == s = "COMPLETE" \/ s = "FAILED" \/ s = "PROCESSING"

\* job.status === 'COMPLETE' || job.status === 'FAILED'
IsTerminalStatus(s) == s = "COMPLETE" \/ s = "FAILED"

\* variant: the catch block reports the poll as finished
PollErrorStops == TRUE

\* the catch block of pollOnce: return false
PollErrorResult == FALSE

\* the response reaches updateCurrentJobUI: fetch resolved, not 404, ok, body parsed
Delivered(resp) ==
    /\ resp.code # 0
    /\ resp.code # 404
    /\ IsOk(resp.code)
    /\ resp.body = "job"

\* variant: pollOnce never reports the job as finished
PollOnceNeverDone(resp) == FALSE

\* the value pollOnce resolves to
PollOnceReturn(resp) ==
    IF resp.code = 0 THEN PollErrorResult
    ELSE IF resp.code = 404 THEN TRUE
    ELSE IF ~IsOk(resp.code) THEN PollErrorResult
    ELSE IF resp.body # "job" THEN PollErrorResult
    ELSE IsTerminalStatus(resp.status)

\* variant: only currentJobId is removed
StoreAfterNotFoundKeepsMeta(s) == [s EXCEPT !.currentJobId = Null]

\* sessionStorage.removeItem('currentJobId'); removeItem('currentJobMeta')
StoreAfterNotFound(s) == [s EXCEPT !.currentJobId = Null, !.currentJobMeta = Null]

\* variant: sign-out removes the cached email and name only
ClearedStoreKeepsJob == [currentJobId |-> "j0", currentJobMeta |-> Null, userId |-> "u1",
                         userEmail |-> Null, userName |-> Null,
                         errorCode |-> Null, errorMessage |-> Null, errorId |-> Null,
                         id_token |-> Null, access_token |-> Null]

\* sessionStorage.clear()
ClearedStore == [currentJobId |-> Null, currentJobMeta |-> Null, userId |-> Null,
                 userEmail |-> Null, userName |-> Null,
                 errorCode |-> Null, errorMessage |-> Null, errorId |-> Null,
                 id_token |-> Null, access_token |-> Null]

\* the email and name the main page cached together with that user id
CachedEmail(u) == IF u \in UserIds THEN "e1@x" ELSE u
CachedName(u) == IF u \in UserIds THEN "n1" ELSE u

InitialPanel ==
    [badge |-> "initial", progressHidden |-> FALSE, downloadShown |-> FALSE,
     title |-> "initial", errMsgs |-> <<>>, href |-> "initial"]

\* variant: a job in PROCESSING is shown as complete
\* variant: an in-progress status puts the panel back to its initial presentation
UpdateCurrentJobUIResets(p, job) ==
    IF job.status = "COMPLETE" THEN
        [p EXCEPT !.badge = "Complete", !.progressHidden = TRUE,
                  !.downloadShown = TRUE, !.title = "Narration ready!"]
    ELSE IF job.status = "FAILED" THEN
        [p EXCEPT !.badge = "Failed", !.progressHidden = TRUE,
                  !.title = "Job failed",
                  !.errMsgs = Append(@, IF job.errorMessage # "" THEN job.errorMessage
                                        ELSE DefaultFailText)]
    ELSE [p EXCEPT !.badge = "initial", !.progressHidden = FALSE, !.title = "initial"]

UpdateCurrentJobUIOptimistic(p, job) ==
    IF job.status = "COMPLETE" \/ job.status = "PROCESSING" THEN
        [p EXCEPT !.badge = "Complete", !.progressHidden = TRUE,
                  !.downloadShown = TRUE, !.title = "Narration ready!"]
    ELSE IF job.status = "FAILED" THEN
        [p EXCEPT !.badge = "Failed", !.progressHidden = TRUE,
                  !.title = "Job failed",
                  !.errMsgs = Append(@, IF job.errorMessage # "" THEN job.errorMessage
                                        ELSE DefaultFailText)]
    ELSE p

\* updateCurrentJobUI: the synchronous changes to the panel
UpdateCurrentJobUI(p, job) ==
    IF job.status = "COMPLETE" THEN
        [p EXCEPT !.badge = "Complete", !.progressHidden = TRUE,
                  !.downloadShown = TRUE, !.title = "Narration ready!"]
    ELSE IF job.status = "FAILED" THEN
        [p EXCEPT !.badge = "Failed", !.progressHidden = TRUE,
                  !.title = "Job failed",
                  !.errMsgs = Append(@, IF job.errorMessage # "" THEN job.errorMessage
                                        ELSE DefaultFailText)]
    ELSE p

\* updateCurrentJobUI: the getDownloadUrl calls it makes
DownloadKeysRequested(job) ==
    IF job.status = "COMPLETE" /\ job.outputKey # "" THEN <<job.outputKey>> ELSE <<>>

\* the pre-signed URL the backend mints for a key
UrlFor(k) == IF k = "k1" THEN "https://signed/k1" ELSE "https://signed/other"

\* loadAllJobs up to its await: the "reset state" block
ListReset == [loading |-> TRUE, list |-> FALSE, empty |-> FALSE, error |-> FALSE]

\* timer state as one value
TimerState == [pollTimer |-> pollTimer, liveTimers |-> liveTimers, timersCreated |-> timersCreated]

\* pollTimer = setInterval(...)
SetInterval(t) ==
    [pollTimer |-> t.timersCreated + 1,
     liveTimers |-> t.liveTimers \cup {t.timersCreated + 1},
     timersCreated |-> t.timersCreated + 1]

\* clearInterval(pollTimer)
ClearInterval(t) == [t EXCEPT !.liveTimers = @ \ {t.pollTimer}]

\* variant: the interval is created whatever the first check returned
StartPollingAlwaysTimer(done, t) == SetInterval(t)

\* startPolling after the awaited first check: if (done) return; pollTimer = setInterval(...)
StartPollingTimer(done, t) == IF done THEN t ELSE SetInterval(t)

\* variant: the interval callback never clears the interval
TickCallbackNoClear(finished, t) == t

\* the interval callback after its awaited poll: if (finished) clearInterval(pollTimer)
TickCallbackTimer(finished, t) == IF finished THEN ClearInterval(t) ELSE t

\* variant: initPage starts polling unconditionally
HasCurrentJobAlways(id) == TRUE

\* initPage: if (currentJobId)
HasCurrentJob(id) == Truthy(id)

\* variant: a FAILED job does not refresh the list
ReloadsListOnlyComplete(resp, userId) ==
    Delivered(resp) /\ resp.status = "COMPLETE" /\ Truthy(userId)

\* variant: a not-found job refreshes the list as well
ReloadsListOnNotFound(resp, userId) ==
    (resp.code = 404 \/ (Delivered(resp) /\ IsTerminalStatus(resp.status))) /\ Truthy(userId)

\* pollOnce: on COMPLETE or FAILED, userId = sessionStorage.getItem('userId'); if (userId) loadAllJobs(userId)
ReloadsList(resp, userId) ==
    Delivered(resp) /\ IsTerminalStatus(resp.status) /\ Truthy(userId)

RemoveAt(seq, i) == [k \in 1..(Len(seq) - 1) |-> IF k < i THEN seq[k] ELSE seq[k + 1]]

\* ------------------------------------------------- main page: upload form
MAX_FILE_SIZE_BYTES == 5 * 1024 * 1024

Categories == {"c1"}
Audios == {"a1"}
Voices == {"v1", "v2"}

\* textFileInput.files[0] when no file is selected
NoFile == [name |-> "", size |-> -1]

\* the files a user may pick
Files ==
    {[name |-> "f.txt", size |-> 1024],
     [name |-> "notes.txt", size |-> MAX_FILE_SIZE_BYTES],
     [name |-> "notes.txt", size |-> MAX_FILE_SIZE_BYTES + 1],
     [name |-> "f.txt", size |-> 6 * 1024 * 1024],
     [name |-> "notes.pdf", size |-> 1024]}

\* the ids crypto.randomUUID() returns, in order of the calls
FreshId(n) == <<"j1", "j2", "j3", "j4">>[n]

\* err.message of a rejected credential exchange or storage write ("" when absent)
FailureMessages == {"Access Denied", ""}

\* the stems a picked file name may have before its last four characters
NameStems == {"", "f", "notes", "f.txt", "notes.pdf"}

\* file.name.endsWith('.txt')
EndsWithTxt(name) == \E stem \in NameStems : name = stem \o ".txt"

\* handleFileSelection: which branch a change event takes
FileCheck(f) ==
    IF f = NoFile THEN "none"
    ELSE IF ~EndsWithTxt(f.name) THEN "badType"
    ELSE IF f.size > MAX_FILE_SIZE_BYTES THEN "tooBig"
    ELSE "ok"

\* variant: an oversize file is reported but left in the input
InputAfterSelectionKeepsOversize(f) == IF FileCheck(f) \in {"ok", "tooBig"} THEN f ELSE NoFile

\* handleFileSelection: the file the input holds afterwards (textFileInput.value = '' on rejection)
InputAfterSelection(f) == IF FileCheck(f) = "ok" THEN f ELSE NoFile

\* handleFileSelection: text of #file-error afterwards
FileErrorAfterSelection(old, f) ==
    IF FileCheck(f) = "none" THEN old
    ELSE IF FileCheck(f) = "badType" THEN "Please select a .txt file."
    ELSE IF FileCheck(f) = "tooBig" THEN "File exceeds the 5MB limit."
    ELSE ""

\* variant: the file is not checked at submit
MissingErrorsNoFile(f) ==
    (IF f.category = Null THEN <<"Please select a content category.">> ELSE <<>>)
        \o (IF f.audio = Null THEN <<"Please select background audio.">> ELSE <<>>)
        \o (IF f.voice = Null THEN <<"Please select a voice.">> ELSE <<>>)

\* handleVideoFormSubmit: the errors array
MissingErrors(f) ==
    (IF f.category = Null THEN <<"Please select a content category.">> ELSE <<>>)
        \o (IF f.audio = Null THEN <<"Please select background audio.">> ELSE <<>>)
        \o (IF f.voice = Null THEN <<"Please select a voice.">> ELSE <<>>)
        \o (IF f.file = NoFile THEN <<"Please upload a text file.">> ELSE <<>>)

\* errors.join(' ')
RECURSIVE JoinSpace(_)
JoinSpace(seq) ==
    IF seq = <<>> THEN ""
    ELSE IF Len(seq) = 1 THEN seq[1]
    ELSE seq[1] \o " " \o JoinSpace(Tail(seq))

\* sessionStorage.getItem('userId') || 'unknown'
UploadUserId(s) == IF Truthy(s.userId) THEN s.userId ELSE "unknown"

\* variant: category placed before voice
S3KeyCategoryFirst(userId, jobId, voice, category, audio, filename) ==
    userId \o "/" \o jobId \o "/" \o category \o "/" \o voice \o "/" \o audio \o "/" \o filename

\* `${userId}/${jobId}/${voice.value}/${category.value}/${audio.value}/${file.name}`
S3Key(userId, jobId, voice, category, audio, filename) ==
    userId \o "/" \o jobId \o "/" \o voice \o "/" \o category \o "/" \o audio \o "/" \o filename

\* JSON.stringify({ voice, category, audio })
MetaJson(voice, category, audio) ==
    "{\"voice\":\"" \o voice \o "\",\"category\":\"" \o category
        \o "\",\"audio\":\"" \o audio \o "\"}"

\* variant: the metadata is read from the form again after the upload
StoreAfterUploadCurrentForm(s, u) ==
    [s EXCEPT !.currentJobId = u.jobId,
              !.currentJobMeta = MetaJson(form.voice, form.category, form.audio)]

\* sessionStorage.setItem('currentJobId', jobId); setItem('currentJobMeta', ...)
StoreAfterUpload(s, u) ==
    [s EXCEPT !.currentJobId = u.jobId,
              !.currentJobMeta = MetaJson(u.voice, u.category, u.audio)]

\* `Upload failed: ${err.message || 'Please try again.'}`
UploadFailedText(msg) == "Upload failed: " \o (IF msg # "" THEN msg ELSE "Please try again.")

\* variant: the button is left disabled
\* variant: the button is left enabled while the upload runs
SetButtonLoadingEnabled == FALSE

\* setButtonLoading: btn.disabled = true
SetButtonLoadingDisabled == TRUE

ResetButtonStuck == TRUE

\* resetButton: btn.disabled = false
ResetButtonDisabled == FALSE

NoUpload == [jobId |-> Null, userId |-> Null, voice |-> Null, category |-> Null,
             audio |-> Null, file |-> NoFile]

\* nothing rendered by the error page
NoView == [type |-> Null, text |-> Null, details |-> Null, id |-> Null,
           params |-> [code |-> Null, message |-> Null, id |-> Null]]

\* no error recorded, error page not open
ErrorIdle ==
    /\ errPc = "app"
    /\ errView = NoView
    /\ recorded = <<>>
    /\ triggers = 0
    /\ displays = 0

\* the callback page is not open
CallbackIdle ==
    /\ cbPc = "closed"
    /\ cbParams = [code |-> Null, error |-> Null, error_description |-> Null]
    /\ cbError = ""
    /\ exchanged = <<>>
    /\ cbResp = <<>>

\* the sign-up page as loaded: registration step shown, no pending user
SignupIdle ==
    /\ signupStepShown = TRUE
    /\ verifyStepShown = FALSE
    /\ pendingCognitoUser = Null
    /\ signupError = ""
    /\ verifyError = [text |-> "", type |-> ""]
    /\ fieldErrors = {}
    /\ signupBtnDisabled = FALSE
    /\ verifyBtnDisabled = FALSE
    /\ resendDisabled = FALSE
    /\ providerCalls = <<>>
    /\ lastForm = <<>>
    /\ submits = 0
    /\ verifies = 0
    /\ signupSuccess = Null
    /\ suPage = "signup"

PagesIdle ==
    /\ ErrorIdle
    /\ CallbackIdle
    /\ SignupIdle

\* the session check of the page load is over and nothing is outstanding; the
\* screens' classes and the SDK's session agree with the screen shown
SessionQuiet ==
    /\ sdkSession = IF screen = "main" THEN "valid" ELSE "none"
    /\ pendingChecks = 0
    /\ checks = 0
    /\ firstCheckDone = TRUE
    /\ loginScreenHidden = (screen # "login")
    /\ mainScreenHidden = (screen # "main")
    /\ sinceSignOut = FALSE
    /\ delivered = "nothing"

\* the upload form before any interaction, nothing chosen
UploadIdle ==
    /\ form = [category |-> Null, audio |-> Null, voice |-> Null, file |-> NoFile]
    /\ picked = NoFile
    /\ fileError = ""
    /\ formError = ""
    /\ formErrorShown = FALSE
    /\ submitDisabled = FALSE
    /\ upPc = "idle"
    /\ up = NoUpload
    /\ uuids = 0
    /\ credsCalls = 0
    /\ puts = <<>>
    /\ loginPc = "idle"
    /\ loginDisabled = FALSE
    /\ loginError = ""
    /\ PagesIdle

\* createdAt values of the listed jobs, milliseconds since the epoch
Timestamps == {1, 2, 3}

\* the job of position n in a listing, without and with createdAt
Undated(n) == [jobId |-> FreshId(n)]
Dated(n, t) == [jobId |-> FreshId(n), createdAt |-> t]

\* the arrays GET /jobs?userId= can answer with, up to MaxJobs jobs
RECURSIVE JobLists(_)
JobLists(n) ==
    IF n = 0 THEN {<<>>}
    ELSE JobLists(n - 1)
           \cup {Append(l, j) : l \in {x \in JobLists(n - 1) : Len(x) = n - 1},
                                j \in {Undated(n)} \cup {Dated(n, t) : t \in Timestamps}}

\* the array GET /jobs?userId= answers with: the polled job while the backend
\* holds it, then the user's other jobs
\* one-job listings over the statuses the server reports, with the optional
\* outputKey and errorMessage fields present, empty or absent
StatusListings ==
    {<<[jobId |-> "j1", status |-> st, outputKey |-> k, errorMessage |-> e]>> :
        st \in {"PENDING", "PROCESSING", "COMPLETE", "FAILED", ""},
        k \in {"", "k1"}, e \in {"", "boom"}}
    \cup {<<[jobId |-> "j1", status |-> st]>> : st \in {"COMPLETE", "FAILED"}}

Listing == IF srv.status = "ABSENT" THEN srvJobs ELSE <<Dated(1, 1)>> \o srvJobs

\* new Date(job.createdAt || 0), as milliseconds
TimeOf(job) == IF "createdAt" \in DOMAIN job THEN job.createdAt ELSE 0

\* variant: oldest first
CompareOldestFirst(a, b) == TimeOf(a) - TimeOf(b)

\* (a, b) => new Date(b.createdAt || 0) - new Date(a.createdAt || 0)
Compare(a, b) == TimeOf(b) - TimeOf(a)

\* x put into the sorted array l behind every element that does not sort after it
RECURSIVE Insert(_, _)
Insert(l, x) ==
    IF l = <<>> THEN <<x>>
    ELSE IF Compare(l[1], x) <= 0 THEN <<l[1]>> \o Insert(Tail(l), x)
    ELSE <<x>> \o l

\* jobs.sort(comparator): Array.prototype.sort is a stable sort
RECURSIVE SortJobs(_)
SortJobs(jobs) ==
    IF jobs = <<>> THEN <<>>
    ELSE Insert(SortJobs(SubSeq(jobs, 1, Len(jobs) - 1)), jobs[Len(jobs)])

\* job.status, job.outputKey, job.errorMessage ("" when the field is absent)
StatusOf(job) == IF "status" \in DOMAIN job THEN job.status ELSE ""
OutputKeyOf(job) == IF "outputKey" \in DOMAIN job THEN job.outputKey ELSE ""
ErrorMessageOf(job) == IF "errorMessage" \in DOMAIN job THEN job.errorMessage ELSE ""

\* buildStatusBadge: the label of the badge
BadgeLabel(status) ==
    IF status = "COMPLETE" THEN "Complete"
    ELSE IF status = "PROCESSING" THEN "Processing"
    ELSE IF status = "FAILED" THEN "Failed"
    ELSE IF status = "PENDING" THEN "Pending"
    ELSE IF status # "" THEN status
    ELSE "Unknown"

\* variant: the download button is offered for every COMPLETE job
HasDownloadButtonAnyComplete(job) == StatusOf(job) = "COMPLETE"

\* job.status === 'COMPLETE' && job.outputKey
HasDownloadButton(job) == StatusOf(job) = "COMPLETE" /\ OutputKeyOf(job) # ""

\* job.status === 'FAILED'
HasErrorExcerpt(job) == StatusOf(job) = "FAILED"

\* buildJobCard: the card of a job; dimmed is style.opacity 0.5, dlBusy the
\* disabled state of the download button
BuildJobCard(job) ==
    [job |-> job,
     badge |-> BadgeLabel(StatusOf(job)),
     download |-> HasDownloadButton(job),
     excerpt |-> IF HasErrorExcerpt(job)
                 THEN (IF ErrorMessageOf(job) # "" THEN ErrorMessageOf(job)
                       ELSE "Processing failed")
                 ELSE "",
     excerptShown |-> HasErrorExcerpt(job),
     delete |-> TRUE,
     dimmed |-> FALSE,
     dlBusy |-> FALSE]

\* listEl.innerHTML = ''; one card appended per job of the sorted array
CardsAfterLoad(old, jobs) ==
    IF Len(jobs) = 0 THEN old
    ELSE [i \in 1..Len(jobs) |-> BuildJobCard(SortJobs(jobs)[i])]

\* the requests whose captured element left the document: all of them when the
\* list was rendered anew, else those of the removed card
Detached(reqs, rendered, removedId) ==
    [i \in 1..Len(reqs) |->
        IF rendered \/ reqs[i].jobId = removedId
        THEN [reqs[i] EXCEPT !.attached = FALSE]
        ELSE reqs[i]]

\* position of the first card whose id is job-card-{jobId} (0 when there is none)
CardIndex(cs, jobId) ==
    IF \E k \in 1..Len(cs) : cs[k].job.jobId = jobId
    THEN CHOOSE k \in 1..Len(cs) :
            /\ cs[k].job.jobId = jobId
            /\ \A m \in 1..(k - 1) : cs[m].job.jobId # jobId
    ELSE 0

\* card.remove()
RemoveCard(cs, jobId) ==
    IF CardIndex(cs, jobId) = 0 THEN cs ELSE RemoveAt(cs, CardIndex(cs, jobId))

\* variant: the download-link request is keyed by the job id
DownloadRequestKeyJobId(outputKey, jobId) == jobId

\* variant: the emptied list container stays visible
ListAfterRemovalStaysShown(ui, cs) == ui

\* if (listEl.children.length === 0): hide the list, show the empty state
ListAfterRemoval(ui, cs) ==
    IF Len(cs) = 0 THEN [ui EXCEPT !.list = FALSE, !.empty = TRUE] ELSE ui

\* /download-url?key={outputKey}
DownloadRequestKey(outputKey, jobId) == outputKey

\* /jobs/{jobId} with method DELETE
DeleteRequestKey(jobId) == jobId

DeleteFailedAlert == "Failed to delete job. Please try again."
DownloadFailedAlert == "Could not generate download link. Please try again."

\* the listing without the job of that id
WithoutJob(jobs, jobId) == SelectSeq(jobs, LAMBDA j : j.jobId # jobId)

\* variant: the finally block leaves the button disabled
DownloadButtonLeftBusy(card) == card

\* finally: btn.disabled = false
DownloadButtonRestored(card) == [card EXCEPT !.dlBusy = FALSE]

\* variant: no Authorization header value is sent
AuthHeaderMissing(tok) == Null

\* headers: { 'Authorization': idToken }
AuthHeader(tok) == tok

\* no job list fetched or rendered
RenderIdle ==
    /\ fetched = <<>>
    /\ cards = <<>>
    /\ deletes = <<>>
    /\ cardDls = <<>>
    /\ alerts = <<>>
    /\ opened = {}
    /\ clicks = 0
    /\ declined = {}

\* the jobs page script before DOMContentLoaded
JobsIdle ==
    /\ currentJobId = Null
    /\ idToken = Null
    /\ pollTimer = 0
    /\ liveTimers = {}
    /\ timersCreated = 0
    /\ startPc = "idle"
    /\ polls = <<>>
    /\ appVisible = FALSE
    /\ sectionVisible = FALSE
    /\ panel = InitialPanel
    /\ listUI = [loading |-> TRUE, list |-> FALSE, empty |-> FALSE, error |-> FALSE]
    /\ listInFlight = 0
    /\ dlInFlight = <<>>
    /\ dlRequests = <<>>
    /\ pollReloads = 0
    /\ ticks = 0
    /\ handledLog = <<>>
    /\ authSent = {}

\* ------------------------------------------------------------------ Init
Init ==
    /\ page = "loading"
    \* a stored job was stored by the main page, which caches the user's
    \* email and name when it shows the form
    /\ \E j \in JobIds \cup {Null}, u \in UserIds \cup {Null} :
          store = [currentJobId |-> j,
                   currentJobMeta |-> IF j = Null THEN Null ELSE CHOOSE m \in Metas : TRUE,
                   userId |-> u,
                   userEmail |-> IF j = Null THEN Null ELSE CachedEmail("u1"),
                   userName |-> IF j = Null THEN Null ELSE CachedName("u1"),
                   errorCode |-> Null, errorMessage |-> Null, errorId |-> Null,
                   id_token |-> Null, access_token |-> Null]
    /\ srv \in ServerJobs
    /\ (store.currentJobId = Null => srv = AbsentJob)
    /\ JobsIdle
    /\ UploadIdle
    /\ screen = "none"
    /\ SessionQuiet
    /\ RenderIdle
    /\ srvJobs = <<>>

PollerVars == <<currentJobId, pollTimer, liveTimers, timersCreated, startPc, polls,
                sectionVisible, panel, dlInFlight, dlRequests, pollReloads, ticks, handledLog>>
ListVars == <<listUI, listInFlight>>

\* --------------------------------------------------------------- actions
\* DOMContentLoaded -> checkAuthAndInit up to getSession
CheckAuthAndInit ==
    /\ page = "loading"
    /\ \E hasUser \in BOOLEAN :
          page' = IF hasUser THEN "authWait" ELSE "redirected"
    /\ UNCHANGED <<store, idToken, srv, appVisible, PollerVars, ListVars>>
    /\ UNCHANGED <<UploadVars, RenderVars>>
    /\ UNCHANGED authSent

\* getSession callback with an error or an invalid session: redirectToLogin
SessionRejected ==
    /\ page = "authWait"
    /\ page' = "redirected"
    /\ UNCHANGED <<store, idToken, srv, appVisible, PollerVars, ListVars>>
    /\ UNCHANGED <<UploadVars, RenderVars>>
    /\ UNCHANGED authSent

\* getSession callback with a valid session, including initPage(payload.sub):
\* showCurrentJobSection, startPolling up to its first await, loadAllJobs up to its await
SessionValid ==
    /\ page = "authWait"
    /\ \E sub \in UserIds :
          store' = [store EXCEPT !.userId = sub]
    /\ page' = "ready"
    /\ idToken' = Token
    /\ appVisible' = TRUE
    /\ currentJobId' = store.currentJobId
    /\ IF HasCurrentJob(store.currentJobId)
       THEN /\ sectionVisible' = TRUE
            /\ startPc' = "awaitFirst"
            /\ polls' = Append(polls, [src |-> "first", jobId |-> store.currentJobId,
                                       answered |-> FALSE, resp |-> NoResp])
       ELSE UNCHANGED <<sectionVisible, startPc, polls>>
    /\ listUI' = ListReset
    /\ listInFlight' = listInFlight + 1
    /\ UNCHANGED <<srv, pollTimer, liveTimers, timersCreated, panel, dlInFlight,
                   dlRequests, pollReloads, ticks, handledLog>>
    /\ UNCHANGED <<UploadVars, RenderVars>>
    /\ authSent' = authSent \cup {AuthHeader(idToken')}

\* the interval callback up to its await: pollOnce(jobId) issues the request
TimerTick ==
    /\ page = "ready"
    /\ ticks < MaxTicks
    /\ Len(polls) < MaxInFlight
    /\ \E t \in liveTimers :
          polls' = Append(polls, [src |-> "tick", jobId |-> currentJobId,
                                  answered |-> FALSE, resp |-> NoResp])
    /\ ticks' = ticks + 1
    /\ UNCHANGED <<page, store, idToken, srv, appVisible, currentJobId, pollTimer,
                   liveTimers, timersCreated, startPc, sectionVisible, panel,
                   dlInFlight, dlRequests, pollReloads, handledLog, ListVars>>
    /\ UNCHANGED <<UploadVars, RenderVars>>
    /\ authSent' = authSent \cup {AuthHeader(idToken)}

\* the backend (or the network) produces the answer to one outstanding poll
ServerAnswer ==
    /\ \E i \in 1..Len(polls) :
          /\ ~polls[i].answered
          /\ \E a \in Answers(srv) :
                polls' = [polls EXCEPT ![i].answered = TRUE, ![i].resp = a]
    /\ UNCHANGED <<page, store, idToken, srv, appVisible, currentJobId, pollTimer,
                   liveTimers, timersCreated, startPc, sectionVisible, panel,
                   dlInFlight, dlRequests, pollReloads, ticks, handledLog, ListVars>>
    /\ UNCHANGED <<UploadVars, RenderVars>>
    /\ UNCHANGED authSent

\* pollOnce from the point its fetch settles, then the continuation of its caller
\* (startPolling for the first check, the interval callback for the others)
PollResponse ==
    /\ page = "ready"
    /\ \E i \in 1..Len(polls) :
          LET r == polls[i]
              resp == r.resp
              finished == PollOnceReturn(resp)
              reload == ReloadsList(resp, store.userId)
              t == IF r.src = "first" THEN StartPollingTimer(finished, TimerState)
                   ELSE TickCallbackTimer(finished, TimerState)
          IN  /\ r.answered
              /\ polls' = RemoveAt(polls, i)
              /\ handledLog' = Append(handledLog, [src |-> r.src, resp |-> resp])
              /\ store' = IF resp.code = 404 THEN StoreAfterNotFound(store) ELSE store
              /\ sectionVisible' = IF resp.code = 404 THEN FALSE ELSE sectionVisible
              /\ panel' = IF Delivered(resp) THEN UpdateCurrentJobUI(panel, resp) ELSE panel
              /\ dlRequests' = IF Delivered(resp) THEN dlRequests \o DownloadKeysRequested(resp)
                               ELSE dlRequests
              /\ dlInFlight' = IF Delivered(resp) THEN dlInFlight \o DownloadKeysRequested(resp)
                               ELSE dlInFlight
              /\ pollReloads' = IF reload THEN pollReloads + 1 ELSE pollReloads
              /\ listUI' = IF reload THEN ListReset ELSE listUI
              /\ listInFlight' = IF reload THEN listInFlight + 1 ELSE listInFlight
              /\ startPc' = IF r.src = "first" THEN "done" ELSE startPc
              /\ pollTimer' = t.pollTimer
              /\ liveTimers' = t.liveTimers
              /\ timersCreated' = t.timersCreated
              /\ authSent' = IF reload \/ (Delivered(resp) /\ DownloadKeysRequested(resp) # <<>>)
                             THEN authSent \cup {AuthHeader(idToken)}
                             ELSE authSent
    /\ UNCHANGED <<page, idToken, srv, appVisible, currentJobId, ticks>>
    /\ UNCHANGED <<UploadVars, RenderVars>>

\* loadAllJobs from the point its fetch settles
ListResponse ==
    /\ page = "ready"
    /\ listInFlight > 0
    /\ listInFlight' = listInFlight - 1
    /\ \/ /\ listUI' = [listUI EXCEPT !.loading = FALSE, !.error = TRUE]
          /\ UNCHANGED <<fetched, cards, deletes, cardDls>>
       \/ /\ fetched' = Listing
          /\ cards' = CardsAfterLoad(cards, Listing)
          /\ deletes' = Detached(deletes, Len(Listing) # 0, Null)
          /\ cardDls' = Detached(cardDls, Len(Listing) # 0, Null)
          /\ listUI' = IF Len(Listing) = 0
                       THEN [listUI EXCEPT !.loading = FALSE, !.empty = TRUE]
                       ELSE [listUI EXCEPT !.loading = FALSE, !.list = TRUE]
    /\ UNCHANGED <<page, store, idToken, srv, appVisible, PollerVars>>
    /\ UNCHANGED <<UploadVars, srvJobs, alerts, opened, clicks, declined, authSent>>

\* getDownloadUrl(job.outputKey) settles; .then(url => { if (url) downloadBtn.href = url })
DownloadUrlResponse ==
    /\ page = "ready"
    /\ \E i \in 1..Len(dlInFlight), outcome \in {"url", "nourl", "error"} :
          /\ dlInFlight' = RemoveAt(dlInFlight, i)
          /\ panel' = IF outcome = "url" THEN [panel EXCEPT !.href = UrlFor(dlInFlight[i])]
                      ELSE panel
    /\ UNCHANGED <<page, store, idToken, srv, appVisible, currentJobId, pollTimer,
                   liveTimers, timersCreated, startPc, polls, sectionVisible,
                   dlRequests, pollReloads, ticks, handledLog, ListVars>>
    /\ UNCHANGED <<UploadVars, RenderVars>>
    /\ UNCHANGED authSent

\* the logout button, confirmed: signOut, sessionStorage.clear(), redirectToLogin
\* the Delete button of card i: handleDeleteJob(jobId) up to its await
HandleDeleteJob ==
    /\ page = "ready"
    /\ listUI.list
    /\ \E i \in 1..Len(cards), ok \in BOOLEAN :
          LET jobId == cards[i].job.jobId
              k == CardIndex(cards, jobId)
          IN IF ok
             THEN /\ clicks < MaxClicks
                  /\ clicks' = clicks + 1
                  /\ cards' = [cards EXCEPT ![k].dimmed = TRUE]
                  /\ deletes' = Append(deletes, [jobId |-> jobId,
                                                 key |-> DeleteRequestKey(jobId),
                                                 attached |-> TRUE])
                  /\ authSent' = authSent \cup {AuthHeader(idToken)}
                  /\ UNCHANGED declined
             ELSE /\ declined' = declined \cup {"delete"}
                  /\ UNCHANGED <<clicks, cards, deletes, authSent>>
    /\ UNCHANGED <<page, store, idToken, srv, appVisible, PollerVars, ListVars>>
    /\ UNCHANGED <<UploadVars, srvJobs, fetched, cardDls, alerts, opened>>

\* handleDeleteJob after its await: the DELETE answered ok, answered not ok,
\* or the fetch rejected; an ok answer means the backend removed the job
DeleteResponse ==
    /\ page = "ready"
    /\ \E i \in 1..Len(deletes), outcome \in {"ok", "notok", "netfail"} :
          LET r == deletes[i]
              rest == RemoveAt(deletes, i)
              k == CardIndex(cards, r.jobId)
          IN IF outcome = "ok"
             THEN /\ cards' = IF r.attached THEN RemoveCard(cards, r.jobId) ELSE cards
                  /\ deletes' = IF r.attached THEN Detached(rest, FALSE, r.jobId) ELSE rest
                  /\ cardDls' = IF r.attached THEN Detached(cardDls, FALSE, r.jobId) ELSE cardDls
                  /\ listUI' = ListAfterRemoval(listUI, cards')
                  /\ srvJobs' = WithoutJob(srvJobs, r.jobId)
                  /\ srv' = IF r.jobId \in JobIds THEN AbsentJob ELSE srv
                  /\ UNCHANGED alerts
             ELSE /\ cards' = IF r.attached /\ k # 0
                              THEN [cards EXCEPT ![k].dimmed = FALSE] ELSE cards
                  /\ deletes' = rest
                  /\ alerts' = Append(alerts, DeleteFailedAlert)
                  /\ UNCHANGED <<cardDls, listUI, srvJobs, srv>>
    /\ UNCHANGED <<page, store, idToken, appVisible, PollerVars, listInFlight>>
    /\ UNCHANGED <<UploadVars, fetched, opened, clicks, declined, authSent>>

\* the Download MP3 button of card i: handleDownload(outputKey, jobId) up to its await
HandleDownload ==
    /\ page = "ready"
    /\ listUI.list
    /\ clicks < MaxClicks
    /\ \E i \in 1..Len(cards) :
          LET jobId == cards[i].job.jobId
              k == CardIndex(cards, jobId)
          IN /\ cards[i].download
             /\ ~cards[i].dlBusy
             /\ cards' = [cards EXCEPT ![k].dlBusy = cards[k].download]
             /\ cardDls' = Append(cardDls,
                                   [jobId |-> jobId,
                                    key |-> DownloadRequestKey(OutputKeyOf(cards[i].job), jobId),
                                    attached |-> cards[k].download])
    /\ clicks' = clicks + 1
    /\ authSent' = authSent \cup {AuthHeader(idToken)}
    /\ UNCHANGED <<page, store, idToken, srv, appVisible, PollerVars, ListVars>>
    /\ UNCHANGED <<UploadVars, srvJobs, fetched, deletes, alerts, opened, declined>>

\* handleDownload after its await: a link, an answer without a link, or a
\* failed request; the finally block restores the button either way
CardDownloadResponse ==
    /\ page = "ready"
    /\ \E i \in 1..Len(cardDls), outcome \in {"url", "nourl", "error"} :
          LET r == cardDls[i]
              k == CardIndex(cards, r.jobId)
          IN /\ cardDls' = RemoveAt(cardDls, i)
             /\ IF outcome = "url"
                THEN opened' = opened \cup {UrlFor(r.key)} /\ UNCHANGED alerts
                ELSE alerts' = Append(alerts, DownloadFailedAlert) /\ UNCHANGED opened
             /\ cards' = IF r.attached /\ k # 0
                         THEN [cards EXCEPT ![k] = DownloadButtonRestored(cards[k])]
                         ELSE cards
    /\ UNCHANGED <<page, store, idToken, srv, appVisible, PollerVars, ListVars>>
    /\ UNCHANGED <<UploadVars, srvJobs, fetched, deletes, clicks, declined, authSent>>

\* the click listener of #logout-btn when the dialog is declined: it returns
LogoutDeclined ==
    /\ page = "ready"
    /\ declined' = declined \cup {"signout-jobs"}
    /\ UNCHANGED <<page, store, idToken, srv, appVisible, PollerVars, ListVars>>
    /\ UNCHANGED <<UploadVars, srvJobs, fetched, cards, deletes, cardDls, alerts,
                   opened, clicks, authSent>>

\* the click listener of #logout-btn when the dialog is confirmed
Logout ==
    /\ page = "ready"
    /\ store' = ClearedStore
    /\ page' = "redirected"
    /\ UNCHANGED <<idToken, srv, appVisible, PollerVars, ListVars>>
    /\ UNCHANGED <<UploadVars, RenderVars>>
    /\ UNCHANGED authSent

\* the narration pipeline moves the job forward
ServerProgress ==
    /\ srv.status \in {"PENDING", "PROCESSING"}
    /\ \/ /\ srv.status = "PENDING"
          /\ srv' = LiveJob("PROCESSING")
       \/ \E k \in Keys \cup {""} :
             srv' = [status |-> "COMPLETE", outputKey |-> k, errorMessage |-> ""]
       \/ \E m \in {"boom", ""} :
             srv' = [status |-> "FAILED", outputKey |-> "", errorMessage |-> m]
    /\ UNCHANGED <<page, store, idToken, appVisible, PollerVars, ListVars>>
    /\ UNCHANGED <<UploadVars, RenderVars>>
    /\ UNCHANGED authSent

\* the job record is deleted on the backend
ServerDelete ==
    /\ srv.status # "ABSENT"
    /\ srv' = AbsentJob
    /\ UNCHANGED <<page, store, idToken, appVisible, PollerVars, ListVars>>
    /\ UNCHANGED <<UploadVars, RenderVars>>
    /\ UNCHANGED authSent

Next ==
    \/ CheckAuthAndInit
    \/ SessionRejected
    \/ SessionValid
    \/ TimerTick
    \/ ServerAnswer
    \/ PollResponse
    \/ ListResponse
    \/ DownloadUrlResponse
    \/ Logout
    \/ ServerProgress
    \/ ServerDelete

Spec == Init /\ [][Next]_vars

\* ------------------------------------------- the jobs page with its cards

\* the other jobs of the user: one finished with an output, one failed
DoneJob == [jobId |-> "j2", status |-> "COMPLETE", outputKey |-> "k2", createdAt |-> 3]
FailedJob == [jobId |-> "j3", status |-> "FAILED", errorMessage |-> "boom", createdAt |-> 2]
PageListings == {<<>>, <<DoneJob>>, <<DoneJob, FailedJob>>}

\* the jobs page after its session check, for a user without a current job
CardInit ==
    /\ page = "ready"
    /\ store = [currentJobId |-> Null, currentJobMeta |-> Null, userId |-> "u1",
                userEmail |-> CachedEmail("u1"), userName |-> CachedName("u1"),
                errorCode |-> Null, errorMessage |-> Null, errorId |-> Null,
                id_token |-> Null, access_token |-> Null]
    /\ srv = AbsentJob
    /\ currentJobId = Null
    /\ idToken = Token
    /\ pollTimer = 0
    /\ liveTimers = {}
    /\ timersCreated = 0
    /\ startPc = "idle"
    /\ polls = <<>>
    /\ appVisible = TRUE
    /\ sectionVisible = FALSE
    /\ panel = InitialPanel
    /\ listUI = ListReset
    /\ listInFlight = 1
    /\ dlInFlight = <<>>
    /\ dlRequests = <<>>
    /\ pollReloads = 0
    /\ ticks = 0
    /\ handledLog = <<>>
    /\ authSent = {Token}
    /\ UploadIdle
    /\ screen = "none"
    /\ SessionQuiet
    /\ RenderIdle
    /\ srvJobs \in PageListings


\* the page is opened after an upload whose job has meanwhile finished
PageInit ==
    /\ page = "loading"
    /\ store = [currentJobId |-> "j1", currentJobMeta |-> CHOOSE m \in Metas : TRUE,
                userId |-> "u1", userEmail |-> CachedEmail("u1"),
                userName |-> CachedName("u1"),
                errorCode |-> Null, errorMessage |-> Null, errorId |-> Null,
                id_token |-> Null, access_token |-> Null]
    /\ srv = [status |-> "COMPLETE", outputKey |-> "k1", errorMessage |-> ""]
    /\ JobsIdle
    /\ UploadIdle
    /\ screen = "none"
    /\ SessionQuiet
    /\ RenderIdle
    /\ srvJobs = <<DoneJob>>

PageNext ==
    \/ CheckAuthAndInit
    \/ SessionRejected
    \/ SessionValid
    \/ ServerAnswer
    \/ PollResponse
    \/ ListResponse
    \/ DownloadUrlResponse
    \/ HandleDeleteJob
    \/ DeleteResponse
    \/ HandleDownload
    \/ CardDownloadResponse

PageSpec == PageInit /\ [][PageNext]_vars


\* ------------------------------------------- main page: actions of the form
JobsPageVars == <<idToken, srv, appVisible, PollerVars, ListVars, authSent, PagesVars>>

\* the main page with the main screen shown, a user signed in
UploadInit ==
    /\ page = "main"
    /\ \E u \in UserIds \cup {""}, old \in {Null, "j0"} :
          store = [currentJobId |-> old,
                   currentJobMeta |-> IF old = Null THEN Null ELSE MetaJson("v1", "c1", "a1"),
                   userId |-> u,
                   userEmail |-> CachedEmail(u), userName |-> CachedName(u),
                   errorCode |-> Null, errorMessage |-> Null, errorId |-> Null,
                   id_token |-> Null, access_token |-> Null]
    /\ srv = AbsentJob
    /\ JobsIdle
    /\ UploadIdle
    /\ screen = "main"
    /\ SessionQuiet
    /\ RenderIdle
    /\ srvJobs = <<>>

\* the catch block of handleVideoFormSubmit: resetButton, showFormError
UploadFailed(msg) ==
    /\ submitDisabled' = ResetButtonDisabled
    /\ formError' = UploadFailedText(msg)
    /\ formErrorShown' = TRUE
    /\ upPc' = "idle"

\* change event of #text-file (with the form's input event: clearFormAlerts)
HandleFileSelection ==
    /\ page = "main"
    /\ screen = "main"
    /\ \E f \in Files \cup {NoFile} :
          /\ picked' = f
          /\ form' = [form EXCEPT !.file = InputAfterSelection(f)]
          /\ fileError' = FileErrorAfterSelection(fileError, f)
    /\ formErrorShown' = FALSE
    /\ UNCHANGED <<page, store, JobsPageVars, RenderVars, LoginVars, formError, submitDisabled,
                   upPc, up, uuids, credsCalls, puts>>

\* a radio button of the form is checked (input event: clearFormAlerts)
ChooseOption ==
    /\ page = "main"
    /\ screen = "main"
    /\ \/ \E c \in Categories : form' = [form EXCEPT !.category = c]
       \/ \E a \in Audios : form' = [form EXCEPT !.audio = a]
       \/ \E v \in Voices : form' = [form EXCEPT !.voice = v]
    /\ formErrorShown' = FALSE
    /\ UNCHANGED <<page, store, JobsPageVars, RenderVars, LoginVars, picked, fileError, formError,
                   submitDisabled, upPc, up, uuids, credsCalls, puts>>

\* submit event of the form: handleVideoFormSubmit up to await getAWSCredentials()
HandleVideoFormSubmit ==
    /\ page = "main"
    /\ screen = "main"
    /\ ~submitDisabled
    /\ \/ /\ MissingErrors(form) # <<>>
          /\ formError' = JoinSpace(MissingErrors(form))
          /\ formErrorShown' = TRUE
          /\ UNCHANGED <<submitDisabled, upPc, up, uuids, credsCalls>>
       \/ /\ MissingErrors(form) = <<>>
          /\ uuids < MaxSubmits
          /\ formErrorShown' = FALSE
          /\ submitDisabled' = SetButtonLoadingDisabled
          /\ uuids' = uuids + 1
          /\ up' = [jobId |-> FreshId(uuids + 1), userId |-> UploadUserId(store),
                    voice |-> form.voice, category |-> form.category,
                    audio |-> form.audio, file |-> form.file]
          /\ credsCalls' = credsCalls + 1
          /\ upPc' = "creds"
          /\ UNCHANGED formError
    /\ UNCHANGED <<page, store, JobsPageVars, RenderVars, LoginVars, form, picked, fileError, puts>>

\* getAWSCredentials() settles; on success the key is built and s3.putObject issued
GetAWSCredentialsSettles ==
    /\ page = "main"
    /\ upPc = "creds"
    /\ \/ /\ puts' = Append(puts, [key |-> S3Key(up.userId, up.jobId, up.voice, up.category,
                                                    up.audio, up.file.name),
                                      file |-> up.file, args |-> up, state |-> "pending"])
          /\ upPc' = "put"
          /\ UNCHANGED <<submitDisabled, formError, formErrorShown>>
       \/ /\ \E msg \in FailureMessages \cup {"Not authenticated"} : UploadFailed(msg)
          /\ UNCHANGED puts
    /\ UNCHANGED <<page, store, JobsPageVars, RenderVars, LoginVars, form, picked, fileError, up,
                   uuids, credsCalls>>

\* s3.putObject(...).promise() settles; on success the job is stored and the
\* browser navigates to jobs.html
PutObjectSettles ==
    /\ page = "main"
    /\ upPc = "put"
    /\ \/ /\ puts' = [puts EXCEPT ![Len(puts)].state = "ok"]
          /\ store' = StoreAfterUpload(store, up)
          /\ page' = "loading"
          /\ upPc' = "done"
          /\ UNCHANGED <<submitDisabled, formError, formErrorShown>>
       \/ /\ puts' = [puts EXCEPT ![Len(puts)].state = "failed"]
          /\ \E msg \in FailureMessages : UploadFailed(msg)
          /\ UNCHANGED <<page, store>>
    /\ UNCHANGED <<JobsPageVars, RenderVars, LoginVars, form, picked, fileError, up, uuids, credsCalls>>

UploadNext ==
    \/ HandleFileSelection
    \/ ChooseOption
    \/ HandleVideoFormSubmit
    \/ GetAWSCredentialsSettles
    \/ PutObjectSettles
    \/ CheckAuthAndInit
    \/ SessionRejected
    \/ SessionValid

UploadSpec == UploadInit /\ [][UploadNext]_vars

\* ------------------------------------------------ the main page: sign-in

\* decoded id-token payloads: a full one, and one without email, name and sub
Payloads ==
    {[email |-> "e1@x", name |-> "n1", username |-> "", sub |-> "u1"],
     [email |-> "", name |-> "", username |-> "", sub |-> ""]}

\* email.split('@')[0]
LocalPart(email) == IF email = "e1@x" THEN "e1" ELSE ""

\* storeUserInfo
StoreUserInfo(s, p) ==
    [s EXCEPT !.userEmail = p.email,
              !.userName = IF p.name # "" THEN p.name
                           ELSE IF p.username # "" THEN p.username
                           ELSE LocalPart(p.email),
              !.userId = p.sub]

\* the errors authenticateUser reports through onFailure
AuthErrors ==
    {[code |-> "NotAuthorizedException", message |-> "Incorrect username or password."],
     [code |-> "NetworkError", message |-> "Network error"],
     [code |-> "", message |-> ""]}

\* friendlyAuthError
FriendlyAuthError(err) ==
    IF err.code = "NotAuthorizedException" THEN "Incorrect email or password. Please try again."
    ELSE IF err.code = "UserNotFoundException"
         THEN "No account found with this email. Please sign up first."
    ELSE IF err.code = "UserNotConfirmedException"
         THEN "Please verify your email before signing in. Check your inbox."
    ELSE IF err.code = "PasswordResetRequiredException"
         THEN "Your password needs to be reset. Please contact support."
    ELSE IF err.code = "TooManyRequestsException"
         THEN "Too many attempts. Please wait a moment and try again."
    ELSE IF err.message # "" THEN err.message
    ELSE "Sign in failed. Please try again."

LoginMissingText == "Please enter your email and password."
PasswordResetText == "A password reset is required. Please contact support."

\* videoForm.reset()
EmptyForm == [category |-> Null, audio |-> Null, voice |-> Null, file |-> NoFile]

\* variant: showMainScreen leaves the login screen's classes alone
ShowMainScreenKeepsLogin ==
    /\ mainScreenHidden' = FALSE
    /\ UNCHANGED loginScreenHidden

\* the two classList calls of showMainScreen
ShowMainScreen ==
    /\ loginScreenHidden' = TRUE
    /\ mainScreenHidden' = FALSE

\* the two classList calls of showLoginScreen
ShowLoginScreen ==
    /\ mainScreenHidden' = TRUE
    /\ loginScreenHidden' = FALSE

\* submit event of the login form: handleLogin up to authenticateUser
HandleLogin ==
    /\ page = "main"
    /\ screen = "login"
    /\ ~loginDisabled
    /\ \E filled \in BOOLEAN :
          IF filled
          THEN /\ loginError' = ""
               /\ loginDisabled' = TRUE
               /\ loginPc' = "auth"
          ELSE /\ loginError' = LoginMissingText
               /\ UNCHANGED <<loginDisabled, loginPc>>
    /\ UNCHANGED <<page, store, JobsPageVars, RenderVars, screen, form, picked, fileError,
                   formError, formErrorShown, submitDisabled, upPc, up, uuids,
                   credsCalls, puts, SessionVars>>

\* authenticateUser calls back: onSuccess, onFailure or newPasswordRequired
AuthenticateUserSettles ==
    /\ page = "main"
    /\ loginPc = "auth"
    /\ loginPc' = "idle"
    /\ loginDisabled' = ResetButtonDisabled
    /\ \/ \E p \in Payloads :
             /\ store' = StoreUserInfo(store, p)
             /\ screen' = "main"
             /\ ShowMainScreen
             /\ sdkSession' = "valid"
             /\ sinceSignOut' = FALSE
             /\ delivered' = "authenticated"
             /\ UNCHANGED loginError
       \/ \E err \in AuthErrors :
             /\ loginError' = FriendlyAuthError(err)
             /\ delivered' = "auth failure"
             /\ UNCHANGED <<store, screen, loginScreenHidden, mainScreenHidden,
                            sdkSession, sinceSignOut>>
       \/ /\ loginError' = PasswordResetText
          /\ delivered' = "new password required"
          /\ UNCHANGED <<store, screen, loginScreenHidden, mainScreenHidden,
                         sdkSession, sinceSignOut>>
    /\ UNCHANGED <<page, JobsPageVars, RenderVars, form, picked, fileError, formError,
                   formErrorShown, submitDisabled, upPc, up, uuids, credsCalls, puts,
                   pendingChecks, checks, firstCheckDone>>

\* click on the main page's sign-out button: handleLogout, with showLoginScreen
HandleLogout ==
    /\ page = "main"
    /\ screen = "main"
    /\ \E ok \in BOOLEAN :
          IF ok
          THEN /\ store' = ClearedStore
               /\ sdkSession' = "none"
               /\ sinceSignOut' = TRUE
               /\ screen' = "login"
               /\ ShowLoginScreen
               /\ loginError' = ""
               /\ form' = EmptyForm
               /\ picked' = NoFile
               /\ UNCHANGED declined
          ELSE /\ declined' = declined \cup {"signout-main"}
               /\ UNCHANGED <<store, screen, loginError, form, picked, sdkSession,
                              sinceSignOut, loginScreenHidden, mainScreenHidden>>
    /\ UNCHANGED <<page, JobsPageVars, srvJobs, fetched, cards, deletes, cardDls, alerts,
                   opened, clicks, loginPc, loginDisabled, fileError, formError,
                   formErrorShown, submitDisabled, upPc, up, uuids, credsCalls, puts,
                   pendingChecks, checks, firstCheckDone, delivered>>

\* ------------------------------------------- both pages in one tab

\* a form a signed-in user has filled in
FilledForm == [category |-> "c1", audio |-> "a1", voice |-> "v1",
               file |-> [name |-> "f.txt", size |-> 1024]]

\* the main page in a tab: either nobody is signed in and the login screen is
\* shown, or a signed-in user has filled in the form
MainInit ==
    /\ page = "main"
    /\ screen \in {"login", "main"}
    /\ store = IF screen = "login"
               THEN [currentJobId |-> Null, currentJobMeta |-> Null, userId |-> Null,
                     userEmail |-> Null, userName |-> Null,
                     errorCode |-> Null, errorMessage |-> Null, errorId |-> Null,
                     id_token |-> Null, access_token |-> Null]
               ELSE [currentJobId |-> "j0", currentJobMeta |-> MetaJson("v1", "c1", "a1"),
                     userId |-> "u1", userEmail |-> "e1@x", userName |-> "n1",
                     errorCode |-> Null, errorMessage |-> Null, errorId |-> Null,
                     id_token |-> Null, access_token |-> Null]
    /\ form = IF screen = "login" THEN EmptyForm ELSE FilledForm
    /\ picked = form.file
    /\ fileError = ""
    /\ formError = ""
    /\ formErrorShown = FALSE
    /\ submitDisabled = FALSE
    /\ upPc = "idle"
    /\ up = NoUpload
    /\ uuids = 0
    /\ credsCalls = 0
    /\ puts = <<>>
    /\ loginPc = "idle"
    /\ loginDisabled = FALSE
    /\ loginError = ""
    /\ PagesIdle
    /\ SessionQuiet
    /\ srv = AbsentJob
    /\ JobsIdle
    /\ RenderIdle
    /\ srvJobs = <<>>

\* the tab shows the main page, or the jobs page of a user without a current job
ClientInit == MainInit \/ CardInit

ClientNext ==
    \/ HandleLogin
    \/ AuthenticateUserSettles
    \/ HandleLogout
    \/ HandleVideoFormSubmit
    \/ GetAWSCredentialsSettles
    \/ PutObjectSettles
    \/ ListResponse
    \/ HandleDeleteJob
    \/ DeleteResponse
    \/ HandleDownload
    \/ CardDownloadResponse
    \/ LogoutDeclined
    \/ Logout

ClientSpec == ClientInit /\ [][ClientNext]_vars

\* the jobs page of a signed-in user without a current job, its list fetch outstanding
ListInit ==
    /\ page = "ready"
    /\ store = [currentJobId |-> Null, currentJobMeta |-> Null, userId |-> "u1",
                userEmail |-> CachedEmail("u1"), userName |-> CachedName("u1"),
                errorCode |-> Null, errorMessage |-> Null, errorId |-> Null,
                id_token |-> Null, access_token |-> Null]
    /\ srv = AbsentJob
    /\ currentJobId = Null
    /\ idToken = Token
    /\ pollTimer = 0
    /\ liveTimers = {}
    /\ timersCreated = 0
    /\ startPc = "idle"
    /\ polls = <<>>
    /\ appVisible = TRUE
    /\ sectionVisible = FALSE
    /\ panel = InitialPanel
    /\ listUI = ListReset
    /\ listInFlight = 1
    /\ dlInFlight = <<>>
    /\ dlRequests = <<>>
    /\ pollReloads = 0
    /\ ticks = 0
    /\ handledLog = <<>>
    /\ authSent = {Token}
    /\ UploadIdle
    /\ screen = "none"
    /\ SessionQuiet
    /\ RenderIdle
    /\ srvJobs \in JobLists(MaxJobs) \cup StatusListings

ListNext ==
    \/ ListResponse
    \/ Logout

ListSpec == ListInit /\ [][ListNext]_vars

\* the browser keeps firing a live interval, every request is eventually
\* answered, and every answer is eventually handled
FairSpec ==
    /\ Spec
    /\ WF_vars(TimerTick)
    /\ WF_vars(ServerAnswer)
    /\ WF_vars(PollResponse)

\* ------------------------------------------------- vocabulary of the claims
Last(seq) == seq[Len(seq)]

\* the step handled one poll response
Handled == Len(handledLog') = Len(handledLog) + 1

\* a response that is COMPLETE, FAILED or HTTP 404
RespIsTerminal(resp) ==
    \/ resp.code = 404
    \/ resp.code = 200 /\ resp.body = "job" /\ resp.status \in {"COMPLETE", "FAILED"}

\* a well-formed response that is PENDING or PROCESSING
RespIsProgress(resp) ==
    resp.code = 200 /\ resp.body = "job" /\ resp.status \in {"PENDING", "PROCESSING"}

\* a network failure, a non-2xx non-404 response or a malformed body
RespIsFailure(resp) ==
    \/ resp.code = 0
    \/ resp.code = 500
    \/ resp.code = 200 /\ resp.body = "malformed"

\* terminal responses handled so far
SettledCount == Cardinality({i \in 1..Len(handledLog) : RespIsTerminal(handledLog[i].resp)})

Occurrences(seq, x) == Cardinality({i \in 1..Len(seq) : seq[i] = x})

\* COMPLETE responses carrying outputKey k that were handled so far
CompleteSeenWith(k) ==
    \E i \in 1..Len(handledLog) :
        /\ handledLog[i].resp.code = 200
        /\ handledLog[i].resp.body = "job"
        /\ handledLog[i].resp.status = "COMPLETE"
        /\ handledLog[i].resp.outputKey = k

\* ------------------------------------------------------------------ claims

\* C1: terminal handling happens at most once per page instance: there is never
\* a second download-link request, a second poller-triggered job-list refresh
\* or a second failure message.
C1_TerminalSideEffectsOnce ==
    /\ Len(dlRequests) <= 1
    /\ pollReloads <= 1
    /\ Len(panel.errMsgs) <= 1

\* C2: at most one poll request for the current job is in flight at any time.
C2_OnePollInFlight == Len(polls) <= 1

\* C3: once a terminal response has been handled the interval timer never
\* fires again; the step that handles a terminal response leaves no live timer.
C3_NoTickAfterTerminal ==
    [][ /\ (SettledCount > 0 => ticks' = ticks)
        /\ (SettledCount' > SettledCount => liveTimers' = {}) ]_vars

C3_Witness ==
    /\ Len(handledLog) >= 2
    /\ Last(handledLog).src = "tick"
    /\ RespIsTerminal(Last(handledLog).resp)
    /\ timersCreated = 1
    /\ liveTimers = {}

\* C4: in every reachable state at most one poll interval timer exists, and
\* none exists after a terminal response has been handled.
C4_AtMostOneTimer ==
    /\ Cardinality(liveTimers) <= 1
    /\ (SettledCount > 0 => liveTimers = {})

C4_Witness ==
    /\ SettledCount > 0
    /\ timersCreated = 1
    /\ liveTimers = {}
    /\ Len(polls) > 0

\* C5: handling a PENDING or PROCESSING response leaves currentJobId and
\* currentJobMeta in the session store unchanged, does not settle the poller,
\* and leaves the timer active (created by the first check, untouched by a tick).
C5_ProgressKeepsPolling ==
    [][ (Handled /\ RespIsProgress(Last(handledLog').resp)) =>
            /\ store'.currentJobId = store.currentJobId
            /\ store'.currentJobMeta = store.currentJobMeta
            /\ SettledCount' = SettledCount
            /\ (SettledCount = 0 => Cardinality(liveTimers') = 1)
            /\ (Last(handledLog').src = "tick" => liveTimers' = liveTimers) ]_vars

C5_Witness ==
    /\ Len(handledLog) >= 2
    /\ Last(handledLog).src = "tick"
    /\ Last(handledLog).resp.status = "PROCESSING"
    /\ Cardinality(liveTimers) = 1
    /\ store.currentJobId \in JobIds
    /\ store.currentJobMeta # Null

\* C6: handling an HTTP 404 poll response removes currentJobId and
\* currentJobMeta from the session store, hides the current-job section and
\* leaves no live timer, whatever was handled before.
C6_NotFoundClears ==
    [][ (Handled /\ Last(handledLog').resp.code = 404) =>
            /\ store'.currentJobId = Null
            /\ store'.currentJobMeta = Null
            /\ ~sectionVisible'
            /\ liveTimers' = {} ]_vars

C6_Witness ==
    /\ Len(handledLog) >= 2
    /\ RespIsProgress(handledLog[1].resp)
    /\ Last(handledLog).resp.code = 404
    /\ store.currentJobId = Null
    /\ store.currentJobMeta = Null
    /\ ~sectionVisible

\* C7: a download link is requested exactly once for a key the poller observed
\* with status COMPLETE, and never for a key it did not observe.
C7_DownloadLinkExactlyOnce ==
    \A k \in Keys :
        Occurrences(dlRequests, k) = IF CompleteSeenWith(k) THEN 1 ELSE 0

\* C8: handling a failed poll (network failure, non-2xx non-404 response,
\* malformed body) changes neither the session store nor the panel nor the
\* section, settles nothing, requests nothing, and leaves the timer active.
C8_FailedPollIsNoOp ==
    [][ (Handled /\ RespIsFailure(Last(handledLog').resp)) =>
            /\ store' = store
            /\ panel' = panel
            /\ sectionVisible' = sectionVisible
            /\ dlRequests' = dlRequests
            /\ pollReloads' = pollReloads
            /\ listUI' = listUI
            /\ (SettledCount = 0 => Cardinality(liveTimers') = 1)
            /\ (Last(handledLog').src = "tick" => liveTimers' = liveTimers) ]_vars

\* three consecutive failed polls, the timer still live
C8_Witness ==
    /\ Len(handledLog) >= 3
    /\ \A i \in 1..Len(handledLog) : RespIsFailure(handledLog[i].resp)
    /\ Cardinality(liveTimers) = 1
    /\ sectionVisible
    /\ panel = InitialPanel

\* C9: entering Polling issues the first poll request in the same step, with no
\* timer yet; a timer exists only after the first check was handled with a
\* non-terminal result, and no timer tick precedes that.
C9_FirstCheckImmediate ==
    [][ /\ (startPc = "idle" /\ startPc' # "idle") =>
               /\ Len(polls') = 1
               /\ polls'[1].src = "first"
               /\ timersCreated' = 0
        /\ (startPc' = "awaitFirst" => timersCreated' = 0 /\ ticks' = 0)
        /\ (timersCreated' > 0 =>
               /\ Len(handledLog') >= 1
               /\ handledLog'[1].src = "first"
               /\ ~RespIsTerminal(handledLog'[1].resp)) ]_vars

C9_Witness ==
    /\ timersCreated = 1
    /\ Len(handledLog) = 1
    /\ handledLog[1].src = "first"
    /\ RespIsProgress(handledLog[1].resp)
    /\ ticks = 0

\* C10: at page load polling starts if and only if the session store holds a
\* currentJobId; with one the section is shown and the request is for that id,
\* with none the section stays hidden and no poll request is ever issued.
C10_PollingIffStoredJob ==
    [][ /\ (page = "authWait" /\ page' = "ready") =>
               /\ (store.currentJobId # Null) <=> (startPc' = "awaitFirst")
               /\ (store.currentJobId # Null =>
                       /\ sectionVisible'
                       /\ Len(polls') = 1
                       /\ polls'[1].jobId = store.currentJobId)
               /\ (store.currentJobId = Null => polls' = <<>> /\ ~sectionVisible')
        /\ (page = "ready" /\ startPc = "idle") =>
               /\ startPc' = "idle"
               /\ polls' = <<>>
               /\ ~sectionVisible'
               /\ ticks' = 0
               /\ timersCreated' = 0
        /\ \A i \in 1..Len(polls') : polls'[i].jobId = currentJobId' ]_vars

C10_Witness ==
    /\ page = "ready"
    /\ startPc = "awaitFirst"
    /\ sectionVisible
    /\ Len(polls) = 1
    /\ polls[1].jobId = store.currentJobId
    /\ store.currentJobId \in JobIds


\* C11: once a terminal outcome (COMPLETE, FAILED or 404) has been handled, the
\* session store no longer holds the current job id.
C11_TerminalClearsStoredJob == SettledCount > 0 => store.currentJobId = Null

\* C12: a step of the page reloads the job list on behalf of the poller exactly
\* when it handles a well-formed COMPLETE or FAILED response; each such
\* response causes one reload, and no other step causes one.
C12_ReloadIffCompleteOrFailed ==
    [][ /\ (Handled /\ Last(handledLog').resp.code = 200
                    /\ Last(handledLog').resp.body = "job"
                    /\ Last(handledLog').resp.status \in {"COMPLETE", "FAILED"})
            => (pollReloads' = pollReloads + 1 /\ listInFlight' = listInFlight + 1)
        /\ (pollReloads' # pollReloads)
            => (/\ Handled
                /\ Last(handledLog').resp.code = 200
                /\ Last(handledLog').resp.body = "job"
                /\ Last(handledLog').resp.status \in {"COMPLETE", "FAILED"}) ]_vars

C12_Witness ==
    /\ Len(handledLog) >= 2
    /\ RespIsProgress(handledLog[1].resp)
    /\ Last(handledLog).resp.status = "FAILED"
    /\ pollReloads = 1

\* C13: handling a 404 poll response shows no error message, changes nothing in
\* the panel, requests nothing and reloads nothing; it hides the section.
C13_NotFoundIsSilent ==
    [][ (Handled /\ Last(handledLog').resp.code = 404) =>
            /\ panel' = panel
            /\ pollReloads' = pollReloads
            /\ listUI' = listUI
            /\ listInFlight' = listInFlight
            /\ dlRequests' = dlRequests
            /\ ~sectionVisible' ]_vars

C13_Witness ==
    /\ Len(handledLog) >= 1
    /\ Last(handledLog).resp.code = 404
    /\ panel = InitialPanel
    /\ pollReloads = 0
    /\ ~sectionVisible
    /\ listInFlight = 0
    /\ listUI.list


\* every answer waiting to be handled is COMPLETE, FAILED or 404
AnswersTerminal ==
    \A i \in 1..Len(polls) : polls[i].answered => RespIsTerminal(polls[i].resp)

\* the poller is settled, no interval is live and no request is outstanding
Halted == SettledCount > 0 /\ liveTimers = {} /\ polls = <<>>

\* the page instance never polled or is gone
NotPolling == page # "ready" \/ startPc = "idle"

\* the modelled tick budget ran out before any terminal answer was handled
OutOfTicks == ticks = MaxTicks /\ SettledCount = 0 /\ polls = <<>>

\* C14: polling halts.  Under fair ticks, answers and deliveries, if from some
\* point on every answer is COMPLETE, FAILED or 404, then from some point on the
\* poller is settled with no live timer and no outstanding request (unless the
\* page never polled, was left, or used up its ticks on non-terminal answers).
C14_PollingHalts ==
    (<>[]AnswersTerminal) => <>[](Halted \/ NotPolling \/ OutOfTicks)

C14_Witness ==
    /\ page = "ready"
    /\ Halted
    /\ timersCreated = 1
    /\ ticks >= 1
    /\ ~RespIsTerminal(handledLog[1].resp)


\* --------------------------------------------------- claims: upload form

\* C15: the key of every storage write is userId/jobId/voice/category/audio/
\* filename of that submit, in this order; for u1, j1, v1, c1, a1, f.txt it is
\* u1/j1/v1/c1/a1/f.txt.
C15_KeyOrder ==
    \A i \in 1..Len(puts) :
        LET a == puts[i].args IN
        /\ puts[i].key = a.userId \o "/" \o a.jobId \o "/" \o a.voice \o "/"
                            \o a.category \o "/" \o a.audio \o "/" \o a.file.name
        /\ (a.userId = "u1" /\ a.jobId = "j1" /\ a.voice = "v1" /\ a.category = "c1"
               /\ a.audio = "a1" /\ a.file.name = "f.txt")
              => puts[i].key = "u1/j1/v1/c1/a1/f.txt"
        /\ (a.userId = "unknown" /\ a.jobId = "j2" /\ a.voice = "v2" /\ a.category = "c1"
               /\ a.audio = "a1" /\ a.file.name = "notes.txt")
              => puts[i].key = "unknown/j2/v2/c1/a1/notes.txt"

C15_Witness ==
    \E i \in 1..Len(puts) :
        /\ puts[i].args.userId = "u1"
        /\ puts[i].args.jobId = "j1"
        /\ puts[i].args.voice = "v1"
        /\ puts[i].args.file.name = "f.txt"
        /\ puts[i].key = "u1/j1/v1/c1/a1/f.txt"

\* C16: a validated submit that fails at the credential exchange or at the
\* storage write leaves the session store as it was during the whole submit,
\* does not navigate, shows an error, leaves the form as it is and re-enables
\* the submit button.
C16_FailedUploadPersistsNothing ==
    [][ /\ (upPc \in {"creds", "put"} /\ upPc' = "idle") =>
               /\ store' = store
               /\ page' = page
               /\ page' = "main"
               /\ formErrorShown'
               /\ formError' \in {"Upload failed: Access Denied",
                                  "Upload failed: Not authenticated",
                                  "Upload failed: Please try again."}
               /\ form' = form
               /\ ~submitDisabled'
        /\ (upPc \in {"creds", "put"} /\ upPc' # "done") => store' = store ]_vars

C16_Witness ==
    /\ upPc = "idle"
    /\ Len(puts) = 1
    /\ puts[1].state = "failed"
    /\ formErrorShown
    /\ ~submitDisabled
    /\ store.currentJobId = "j0"
    /\ form.file # NoFile

\* C17: the session store's current job changes only in the step in which the
\* storage write succeeds; that step stores the id generated for this submit
\* and the voice, category and audio of this submit, and navigates to the jobs
\* page; every poll request of the jobs page is for the id in the uploaded key.
C17_StoreAfterSuccessfulWrite ==
    [][ /\ (store'.currentJobId # store.currentJobId
               \/ store'.currentJobMeta # store.currentJobMeta
               \/ (upPc = "put" /\ upPc' = "done")) =>
               /\ upPc = "put"
               /\ upPc' = "done"
               /\ puts'[Len(puts')].state = "ok"
               /\ store'.currentJobId = FreshId(uuids)
               /\ store'.currentJobId = puts'[Len(puts')].args.jobId
               /\ store'.currentJobMeta =
                      (IF puts'[Len(puts')].args.voice = "v1"
                       THEN "{\"voice\":\"v1\",\"category\":\"c1\",\"audio\":\"a1\"}"
                       ELSE "{\"voice\":\"v2\",\"category\":\"c1\",\"audio\":\"a1\"}")
               /\ page = "main"
               /\ page' = "loading"
        /\ \A i \in 1..Len(polls') :
               /\ puts'[Len(puts')].state = "ok"
               /\ polls'[i].jobId = puts'[Len(puts')].args.jobId
               /\ puts'[Len(puts')].key =
                      puts'[Len(puts')].args.userId \o "/" \o polls'[i].jobId \o "/"
                          \o puts'[Len(puts')].args.voice \o "/c1/a1/"
                          \o puts'[Len(puts')].file.name ]_vars

C17_Witness ==
    /\ page = "ready"
    /\ Len(polls) = 1
    /\ Len(puts) = 2
    /\ puts[1].state = "failed"
    /\ puts[2].state = "ok"
    /\ polls[1].jobId = "j2"
    /\ store.currentJobId = "j2"
    /\ store.currentJobMeta = "{\"voice\":\"v2\",\"category\":\"c1\",\"audio\":\"a1\"}"
    /\ form.voice = "v1"

\* the message a rejected submit must show for the items missing from f
MissingText(f) ==
    LET cat == IF f.category = Null THEN "Please select a content category." ELSE ""
        aud == IF f.audio = Null THEN "Please select background audio." ELSE ""
        voi == IF f.voice = Null THEN "Please select a voice." ELSE ""
        fil == IF f.file = NoFile THEN "Please upload a text file." ELSE ""
        Glue(x, y) == IF x = "" THEN y ELSE IF y = "" THEN x ELSE x \o " " \o y
    IN  Glue(Glue(Glue(cat, aud), voi), fil)

SomethingMissing(f) ==
    f.category = Null \/ f.audio = Null \/ f.voice = Null \/ f.file = NoFile

\* C18: a network call is only started from a form with category, audio, voice
\* and file all present; a submit with something missing shows one message
\* naming exactly the missing items and starts no credential exchange, no
\* storage write, no session-store write and no navigation.
C18_MissingFieldsRejected ==
    [][ /\ (credsCalls' # credsCalls \/ uuids' # uuids \/ (upPc' = "creds" /\ upPc # "creds"))
               => ~SomethingMissing(form)
        /\ (upPc = "idle" /\ SomethingMissing(form) /\ formErrorShown'
               /\ (~formErrorShown \/ formError' # formError)) =>
               /\ formError' = MissingText(form)
               /\ credsCalls' = credsCalls
               /\ uuids' = uuids
               /\ puts' = puts
               /\ store' = store
               /\ page' = page
               /\ upPc' = "idle"
               /\ ~submitDisabled' ]_vars

C18_Witness ==
    /\ formErrorShown
    /\ formError = "Please select a voice. Please upload a text file."
    /\ form.category = "c1"
    /\ form.audio = "a1"
    /\ form.voice = Null
    /\ form.file = NoFile
    /\ credsCalls = 0
    /\ puts = <<>>
    /\ page = "main"

\* a .txt file of at most 5 MiB
AcceptableFile(f) == f.name \in {"f.txt", "notes.txt"} /\ f.size <= 5242880

\* C19: every storage write carries a .txt file of at most 5 MiB; the file input
\* never holds another file; picking a non-.txt or oversize file empties the
\* input and starts no network call; picking a .txt file of 1 KiB or of
\* exactly 5 MiB puts it in the input.
C19_OnlyValidFilesUploaded ==
    [][ /\ \A i \in 1..Len(puts') : AcceptableFile(puts'[i].file)
        /\ (form'.file = NoFile \/ AcceptableFile(form'.file))
        /\ (picked' # picked /\ picked' # NoFile /\ ~AcceptableFile(picked')) =>
               /\ form'.file = NoFile
               /\ fileError' # ""
               /\ credsCalls' = credsCalls
               /\ puts' = puts
               /\ upPc' = upPc
               /\ store' = store
               /\ page' = page
        /\ (picked' # picked /\ picked' \in {[name |-> "f.txt", size |-> 1024],
                                            [name |-> "notes.txt", size |-> 5242880]}) =>
               /\ form'.file = picked'
               /\ fileError' = "" ]_vars

C19_Witness ==
    /\ Len(puts) = 1
    /\ puts[1].file = [name |-> "notes.txt", size |-> 5242880]
    /\ puts[1].state = "ok"
    /\ fileError # ""
    /\ picked = [name |-> "notes.txt", size |-> 5242881]


\* ------------------------------------------------------ claims: job list

HasCreatedAt(job) == "createdAt" \in DOMAIN job

\* the jobs the cards show, in the order of the cards
CardJobs == [i \in 1..Len(cards) |-> cards[i].job]

\* number of positions of the array l that hold job
CountIn(l, job) == Cardinality({i \in 1..Len(l) : l[i] = job})

\* C20: once a fetch has answered with jobs, the cards are a permutation of the
\* fetched array, jobs with createdAt come in descending createdAt order, and
\* every job without createdAt comes after every job with one; createdAt
\* values 2, 1, 3 are rendered as 3, 2, 1.
C20_ListSortedNewestFirst ==
    fetched # <<>> =>
        /\ Len(cards) = Len(fetched)
        /\ \A i \in 1..Len(fetched) : CountIn(CardJobs, fetched[i]) = CountIn(fetched, fetched[i])
        /\ \A i \in 1..Len(cards) : \A j \in (i + 1)..Len(cards) :
               /\ (HasCreatedAt(CardJobs[i]) /\ HasCreatedAt(CardJobs[j]))
                      => CardJobs[i].createdAt >= CardJobs[j].createdAt
               /\ HasCreatedAt(CardJobs[j]) => HasCreatedAt(CardJobs[i])
        /\ (fetched = <<[jobId |-> "j1", createdAt |-> 2], [jobId |-> "j2", createdAt |-> 1],
                        [jobId |-> "j3", createdAt |-> 3]>>)
              => CardJobs = <<[jobId |-> "j3", createdAt |-> 3], [jobId |-> "j1", createdAt |-> 2],
                              [jobId |-> "j2", createdAt |-> 1]>>

C20_Witness ==
    /\ fetched = <<[jobId |-> "j1"], [jobId |-> "j2", createdAt |-> 2],
                   [jobId |-> "j3", createdAt |-> 3]>>
    /\ CardJobs = <<[jobId |-> "j3", createdAt |-> 3], [jobId |-> "j2", createdAt |-> 2],
                    [jobId |-> "j1"]>>
    /\ listUI.list
    /\ listInFlight = 0


\* ------------------------------------------------ claims: job cards

\* C21: the card of every job offers a download button exactly when the job's
\* status is COMPLETE and its outputKey is present, shows an error excerpt
\* exactly when the status is FAILED, and always offers a delete action
C21_CardControlsFollowStatus ==
    \A i \in 1..Len(cards) :
        /\ cards[i].download
              <=> ("status" \in DOMAIN cards[i].job /\ cards[i].job.status = "COMPLETE"
                   /\ "outputKey" \in DOMAIN cards[i].job /\ cards[i].job.outputKey # "")
        /\ cards[i].excerptShown
              <=> ("status" \in DOMAIN cards[i].job /\ cards[i].job.status = "FAILED")
        /\ cards[i].excerptShown => cards[i].excerpt # ""
        /\ cards[i].delete

\* a COMPLETE job without an output key is listed: no download button, a delete button
C21_Witness ==
    /\ Len(cards) = 1
    /\ cards[1].job = [jobId |-> "j1", status |-> "COMPLETE"]
    /\ ~cards[1].download
    /\ ~cards[1].excerptShown
    /\ cards[1].delete

\* a DELETE request has just been issued
DeleteIssued == Len(deletes') = Len(deletes) + 1

\* a DELETE request has just been settled as a failure: the alert is raised
DeleteFailedStep == Len(deletes') = Len(deletes) - 1 /\ Len(alerts') = Len(alerts) + 1

\* a DELETE request has just been settled successfully
DeleteSucceededStep == Len(deletes') = Len(deletes) - 1 /\ alerts' = alerts

\* the card of that job is in the list and at full opacity
CardShownUndimmed(cs, jobId) ==
    CardIndex(cs, jobId) # 0 /\ ~cs[CardIndex(cs, jobId)].dimmed

\* C22: a confirmed delete dims the job's card while the DELETE request is
\* outstanding; a card leaves the list only on a successful response; after a
\* non-OK response or a network failure the job's card is still present and
\* un-dimmed and an alert has been raised
C22_DeleteDimsRemovesOrRestores ==
    [][ /\ DeleteIssued
             => /\ CardIndex(cards', Last(deletes').jobId) # 0
                /\ cards'[CardIndex(cards', Last(deletes').jobId)].dimmed
                /\ CardJobs' = CardJobs
        /\ (Len(cards') < Len(cards) /\ listInFlight' = listInFlight)
             => DeleteSucceededStep
        /\ DeleteFailedStep
             => \E i \in 1..Len(deletes) :
                   /\ deletes' = RemoveAt(deletes, i)
                   /\ CardShownUndimmed(cards', deletes[i].jobId)
                   /\ alerts' = Append(alerts, DeleteFailedAlert)
      ]_vars

\* C23: the list container is never visible while it holds no card, and the
\* successful deletion that removes the last card hides the container and
\* shows the empty-state placeholder
C23_LastDeletionShowsEmptyState ==
    [][ /\ listUI'.list => Len(cards') > 0
        /\ (Len(cards) > 0 /\ Len(cards') = 0)
             => (DeleteSucceededStep /\ ~listUI'.list /\ listUI'.empty)
      ]_vars

\* both cards of the list have been deleted
C23_Witness ==
    /\ Len(fetched) = 2
    /\ Len(cards) = 0
    /\ deletes = <<>>
    /\ alerts = <<>>
    /\ ~listUI.list
    /\ listUI.empty

\* ------------------------------------------------ claims: requests

\* C28 as stated: the job id is the key of every poll, deletion and
\* download-link request
C28_JobIdKeysEveryRequest ==
    /\ \A i \in 1..Len(polls) : polls[i].jobId = currentJobId
    /\ \A i \in 1..Len(deletes) : deletes[i].key = deletes[i].jobId
    /\ \A i \in 1..Len(cardDls) : cardDls[i].key = cardDls[i].jobId
    /\ \A i \in 1..Len(dlRequests) : dlRequests[i] = currentJobId

\* C28: every poll request carries the job id read from the session store at
\* page load, which stays fixed while the page lives; a deletion request is
\* keyed by the job's id; a download-link request is keyed by the job's
\* outputKey, not by its id
C28_RequestKeys ==
    [][ /\ (page = "authWait" /\ page' = "ready") => currentJobId' = store.currentJobId
        /\ page = "ready" => currentJobId' = currentJobId
        /\ \A i \in 1..Len(polls') : polls'[i].jobId = currentJobId'
        /\ \A i \in 1..Len(deletes') : deletes'[i].key = deletes'[i].jobId
        /\ \A i \in 1..Len(cardDls') : cardDls'[i].key # cardDls'[i].jobId
        /\ Len(cardDls') = Len(cardDls) + 1
             => \E j \in 1..Len(fetched) :
                   /\ fetched[j].jobId = Last(cardDls').jobId
                   /\ "outputKey" \in DOMAIN fetched[j]
                   /\ Last(cardDls').key = fetched[j].outputKey
        /\ \A i \in 1..Len(dlRequests') :
               \E h \in 1..Len(handledLog') :
                  /\ handledLog'[h].resp.status = "COMPLETE"
                  /\ dlRequests'[i] = handledLog'[h].resp.outputKey
      ]_vars

\* a poll for j1, a deletion of j2 and a download link for j2's output are outstanding
C28_Witness ==
    /\ \E i \in 1..Len(polls) : polls[i].jobId = "j1"
    /\ \E i \in 1..Len(deletes) : deletes[i].key = "j2"
    /\ \E i \in 1..Len(cardDls) : cardDls[i].jobId = "j2" /\ cardDls[i].key = "k2"

\* no request is outstanding and none was sent
NoRequestYet ==
    /\ polls = <<>>
    /\ listInFlight = 0
    /\ dlInFlight = <<>>
    /\ deletes = <<>>
    /\ cardDls = <<>>
    /\ authSent = {}

\* number of requests sent so far that the model still accounts for
RequestsIssued == Len(polls) + Len(handledLog) + listInFlight + Len(dlRequests)
                     + Len(deletes) + Len(cardDls)

\* C29: before a valid session is confirmed the jobs page sends no request and
\* shows no content; without a current user, or with a session error or an
\* invalid session, it goes to the login page; every poll, list, delete and
\* download-link request carries the token cached from the confirmed session
C29_NoRequestWithoutSession ==
    [][ /\ page' \in {"loading", "authWait"} => (NoRequestYet' /\ ~appVisible')
        /\ (page \in {"loading", "authWait"} /\ page' = "redirected")
             => (NoRequestYet' /\ ~appVisible')
        /\ page = "loading" => page' \in {"loading", "authWait", "redirected"}
        /\ (page # "ready" /\ page' = "ready")
             => (page = "authWait" /\ idToken' = Token /\ appVisible')
        /\ authSent' \subseteq {idToken'}
        /\ (authSent' # {} \/ ~NoRequestYet') => (idToken' = Token /\ authSent' = {Token})
      ]_vars

\* polls, list loads, a deletion and both kinds of download-link request went out
C29_Witness ==
    /\ handledLog # <<>>
    /\ dlRequests # <<>>
    /\ deletes # <<>>
    /\ cardDls # <<>>
    /\ listInFlight > 0
    /\ authSent = {Token}

\* ------------------------------------------------ claims: sign-out, failures

\* everything but the record of declined dialogs
AllButDeclined ==
    <<page, store, currentJobId, idToken, pollTimer, liveTimers, timersCreated, startPc,
      polls, srv, appVisible, sectionVisible, panel, listUI, listInFlight, dlInFlight,
      dlRequests, pollReloads, ticks, handledLog, UploadVars, srvJobs, fetched, cards,
      deletes, cardDls, alerts, opened, clicks, authSent>>

\* the step is a confirmed sign-out on the main page / on the jobs page
MainSignOutStep == page = "main" /\ screen = "main" /\ screen' = "login"
JobsSignOutStep == page = "ready" /\ page' = "redirected"

\* C24: a confirmed sign-out, on the main page or on the jobs page, leaves the
\* session store with no current job id, no current job metadata and no cached
\* user email, name or id; a declined sign-out confirmation changes nothing
C24_SignOutClearsStore ==
    [][ /\ (MainSignOutStep \/ JobsSignOutStep)
             => /\ store'.currentJobId = Null
                /\ store'.currentJobMeta = Null
                /\ store'.userEmail = Null
                /\ store'.userName = Null
                /\ store'.userId = Null
        /\ ((declined' \ declined) \cap {"signout-main", "signout-jobs"} # {})
             => UNCHANGED AllButDeclined
      ]_vars

\* a user with a stored job declined the dialog once, then signed out of the main page
C24_Witness ==
    /\ page = "main"
    /\ screen = "login"
    /\ "signout-main" \in declined
    /\ uuids = 0
    /\ loginPc = "idle"
    /\ loginError = ""
    /\ store.currentJobId = Null
    /\ store.userEmail = Null

\* the step handles a failed sign-in / a failed upload / a failed download link
LoginFailedStep == loginPc = "auth" /\ loginPc' = "idle" /\ screen' = "login"
UploadFailedStep == upPc \in {"creds", "put"} /\ upPc' = "idle"
DownloadFailedStep ==
    Len(cardDls') = Len(cardDls) - 1 /\ alerts' = Append(alerts, DownloadFailedAlert)

\* C26: once a failed login, upload, download-link or delete attempt has been
\* handled, the control that started it is enabled again so that the operation
\* can be re-invoked, and no button stays disabled without a pending operation
C26_FailuresLeaveControlsEnabled ==
    [][ /\ LoginFailedStep
             => (~loginDisabled' /\ loginError' # "" /\ page' = "main")
        /\ UploadFailedStep
             => (~submitDisabled' /\ formErrorShown' /\ page' = "main")
        /\ DownloadFailedStep
             => \E i \in 1..Len(cardDls) :
                   /\ cardDls' = RemoveAt(cardDls, i)
                   /\ cardDls[i].attached
                        => /\ CardIndex(cards', cardDls[i].jobId) # 0
                           /\ cards'[CardIndex(cards', cardDls[i].jobId)].download
                           /\ ~cards'[CardIndex(cards', cardDls[i].jobId)].dlBusy
        /\ DeleteFailedStep
             => \E i \in 1..Len(deletes) :
                   /\ deletes' = RemoveAt(deletes, i)
                   /\ deletes[i].attached
                        => /\ CardShownUndimmed(cards', deletes[i].jobId)
                           /\ cards'[CardIndex(cards', deletes[i].jobId)].delete
        /\ loginDisabled' => loginPc' = "auth"
        /\ submitDisabled' => upPc' \in {"creds", "put", "done"}
        /\ \A k \in 1..Len(cards') :
               /\ cards'[k].dlBusy
                    => \E i \in 1..Len(cardDls') :
                          cardDls'[i].attached /\ cardDls'[i].jobId = cards'[k].job.jobId
               /\ cards'[k].dimmed
                    => \E i \in 1..Len(deletes') :
                          deletes'[i].attached /\ deletes'[i].jobId = cards'[k].job.jobId
      ]_vars

\* a deletion and a download link of the same card both failed: each raised
\* its alert and the card is back at full opacity with its buttons enabled
C26_Witness ==
    /\ Len(alerts) = 2
    /\ \E i \in 1..2 : alerts[i] = DeleteFailedAlert
    /\ \E i \in 1..2 : alerts[i] = DownloadFailedAlert
    /\ deletes = <<>>
    /\ cardDls = <<>>
    /\ CardShownUndimmed(cards, "j2")
    /\ cards[CardIndex(cards, "j2")].download
    /\ ~cards[CardIndex(cards, "j2")].dlBusy

\* ------------------------------------------------ claims: observing jobs

\* a response with this status was handled (after the step)
StatusSeen(st) ==
    \E i \in 1..Len(handledLog') :
        /\ handledLog'[i].resp.code = 200
        /\ handledLog'[i].resp.body = "job"
        /\ handledLog'[i].resp.status = st

\* C25: the job record of the backend changes only in steps in which nothing of
\* the client changes, and the panel shows Complete or Failed only when a
\* handled response carried that status; otherwise it shows its initial state.
C25_ClientOnlyObserves ==
    [][ /\ srv' # srv =>
               UNCHANGED <<page, store, idToken, appVisible, PollerVars, ListVars,
                           UploadVars, RenderVars>>
        /\ panel'.badge \in {"initial", "Complete", "Failed"}
        /\ panel'.badge = "Complete" => StatusSeen("COMPLETE")
        /\ panel'.badge = "Failed" => StatusSeen("FAILED")
        /\ panel'.badge = "initial" => (~StatusSeen("COMPLETE") /\ ~StatusSeen("FAILED")) ]_vars

C25_Witness ==
    /\ Len(handledLog) = 2
    /\ handledLog[1].resp.status = "PROCESSING"
    /\ handledLog[2].resp.status = "COMPLETE"
    /\ panel.badge = "Complete"
    /\ srv.status = "COMPLETE"

\* the step handles a job response that was handled before
HandlesDuplicate ==
    /\ Handled
    /\ Delivered(Last(handledLog').resp)
    /\ \E i \in 1..Len(handledLog) : handledLog[i].resp = Last(handledLog').resp

\* C27: handling a job response that was already handled leaves the panel as it
\* is, whatever its status.
C27_DuplicateUpdateOverwrites ==
    [][ HandlesDuplicate => panel' = panel ]_vars

\* C30: the step in which a failed list fetch shows the error banner leaves the
\* loading indicator, the list and the empty-state hidden; handling a failed
\* poll changes nothing the user sees.
C30_ListFailureShowsOnlyBanner ==
    [][ /\ (listInFlight' < listInFlight /\ ~listUI.error /\ listUI'.error) =>
               (~listUI'.loading /\ ~listUI'.list /\ ~listUI'.empty)
        /\ (Handled /\ RespIsFailure(Last(handledLog').resp)) =>
               (panel' = panel /\ sectionVisible' = sectionVisible /\ listUI' = listUI
                  /\ cards' = cards /\ appVisible' = appVisible) ]_vars

\* ------------------------------------------------ claims: late responses

\* the panel presents a finished job: terminal badge, progress bar hidden
ShowsTerminal(p) ==
    /\ p.badge \in {"Complete", "Failed"}
    /\ p.progressHidden
    /\ p.title \in {"Narration ready!", "Job failed"}

\* C34: once the current-job panel shows Complete or Failed, no response
\* handled afterwards (a late PENDING/PROCESSING response of an overlapping
\* earlier request, a failed poll) puts the panel back to in-progress
C34_TerminalPanelStays ==
    [][ ShowsTerminal(panel) => ShowsTerminal(panel') ]_vars

\* a PROCESSING response of an earlier request was handled after the COMPLETE one
C34_Witness ==
    /\ Len(handledLog) = 3
    /\ handledLog[2].resp.status = "COMPLETE"
    /\ handledLog[3].resp.code = 200
    /\ handledLog[3].resp.status = "PROCESSING"
    /\ ShowsTerminal(panel)
    /\ panel.badge = "Complete"

\* C35: whenever no job-list fetch is outstanding and at least one has
\* completed, exactly one of the job list, the empty-state placeholder and the
\* error banner is visible and the loading indicator is hidden
C35_ExactlyOneListView ==
    (appVisible /\ listInFlight = 0)
        => /\ ~listUI.loading
           /\ \/ (listUI.list /\ ~listUI.empty /\ ~listUI.error)
              \/ (~listUI.list /\ listUI.empty /\ ~listUI.error)
              \/ (~listUI.list /\ ~listUI.empty /\ listUI.error)

\* ------------------------------------------------ claims: one upload at a time

\* number of storage writes that have not settled
PendingPuts == Cardinality({i \in 1..Len(puts) : puts[i].state = "pending"})

\* C39: at most one upload is in flight per page: from the validated submit
\* until its failure has been reported the submit control is disabled, so no
\* second credential exchange or storage write starts and no job id is
\* generated while an upload is in flight
C39_OneUploadInFlight ==
    [][ /\ upPc' \in {"creds", "put"} => submitDisabled'
        /\ uuids' # uuids => (upPc = "idle" /\ uuids' = uuids + 1 /\ PendingPuts = 0)
        /\ credsCalls' # credsCalls => (upPc = "idle" /\ PendingPuts = 0)
        /\ Len(puts') > Len(puts) => (upPc = "creds" /\ PendingPuts = 0)
        /\ PendingPuts' <= 1
      ]_vars

\* the first upload failed at the storage write, and the second one is writing
C39_Witness ==
    /\ uuids = 2
    /\ credsCalls = 2
    /\ Len(puts) = 2
    /\ puts[1].state = "failed"
    /\ puts[2].state = "pending"
    /\ puts[1].args.jobId # puts[2].args.jobId
    /\ submitDisabled

(***************************************************************************)
(* Error page: triggerError records an error in the session store and      *)
(* navigates to error.html, whose displayError renders and consumes it.    *)
(***************************************************************************)

MaxTriggers == 2
MaxDisplays == 2

\* ERROR_TYPES: the keys of the table
ErrorTypeKeys == {"404", "500", "401", "403", "timeout", "file", "generic"}

\* ERROR_TYPES[code] || ERROR_TYPES.generic, named by its key
ErrorType(code) == IF code \in ErrorTypeKeys THEN code ELSE "generic"

\* ERROR_TYPES[type].message
ConfigMessage(type) ==
    CASE type = "404"     -> "The page you're looking for doesn't exist."
      [] type = "500"     -> "Our servers are experiencing issues."
      [] type = "401"     -> "Your session has expired. Please log in."
      [] type = "403"     -> "You don't have permission here."
      [] type = "timeout" -> "The request took too long."
      [] type = "file"    -> "There was a problem with your file."
      [] OTHER            -> "An unexpected error occurred."

Digit(d) ==
    CASE d = 0 -> "0" [] d = 1 -> "1" [] d = 2 -> "2" [] d = 3 -> "3" [] d = 4 -> "4"
      [] d = 5 -> "5" [] d = 6 -> "6" [] d = 7 -> "7" [] d = 8 -> "8" [] d = 9 -> "9"

RECURSIVE Decimal(_)
Decimal(n) == IF n < 10 THEN Digit(n) ELSE Decimal(n \div 10) \o Digit(n % 10)

\* String(code) for a code given as a number or as a string
StringOfCode(code) == IF code.t = "number" THEN Decimal(code.n) ELSE code.s

NumCode(n) == [t |-> "number", n |-> n, s |-> ""]
StrCode(s) == [t |-> "string", n |-> 0, s |-> s]

\* codes passed to triggerError: known numbers, an unknown number, a known and
\* an unknown string
TriggerCodes == {NumCode(404), NumCode(500), NumCode(418), StrCode("timeout"), StrCode("teapot")}
TriggerMessages == {Null, "", "m1", "m2"}
TriggerIds == {Null, "id1", "id2"}

\* a || b || c of displayError
FirstTruthy(a, b, c) == IF Truthy(a) THEN a ELSE IF Truthy(b) THEN b ELSE c

NoParams == [code |-> Null, message |-> Null, id |-> Null]

\* query strings error.html is opened with
UrlParams == {NoParams,
              [code |-> "403", message |-> Null, id |-> Null],
              [code |-> Null, message |-> "pm", id |-> "pid"]}

\* sessionStorage after triggerError(code, message, errorId)
StoreAfterTrigger(st, code, message, errorId) ==
    [st EXCEPT !.errorCode    = StringOfCode(code),
               !.errorMessage = IF Truthy(message) THEN message ELSE @,
               !.errorId      = IF Truthy(errorId) THEN errorId ELSE @]

TriggerError ==
    /\ errPc \in {"app", "nav"}
    /\ triggers < MaxTriggers
    /\ \E code \in TriggerCodes, message \in TriggerMessages, errorId \in TriggerIds :
          /\ store' = StoreAfterTrigger(store, code, message, errorId)
          /\ recorded' = <<[code |-> code, message |-> message, id |-> errorId]>>
    /\ errPc' = "nav"
    /\ triggers' = triggers + 1
    /\ UNCHANGED <<page, currentJobId, panel, handledLog, errView, displays, CallbackVars, SignupVars>>
    /\ UNCHANGED <<form, picked, fileError, formError, formErrorShown, submitDisabled,
                   upPc, up, uuids, credsCalls, puts, LoginVars>>
    /\ UNCHANGED <<idToken, srv, appVisible, PollerVars, ListVars, authSent, RenderVars>>

\* what displayError renders from the query string and the session store
ViewOf(st, params) ==
    LET code    == FirstTruthy(params.code, st.errorCode, "generic")
        message == FirstTruthy(params.message, st.errorMessage, Null)
        id      == FirstTruthy(params.id, st.errorId, Null)
        type    == ErrorType(code)
    IN  [type    |-> type,
         text    |-> IF Truthy(message) THEN message ELSE ConfigMessage(type),
         details |-> IF Truthy(message) THEN message ELSE Null,
         id      |-> IF Truthy(id) THEN id ELSE Null,
         params  |-> params]

\* the three removeItem calls of displayError
ErrorKeysRemoved(st) ==
    [st EXCEPT !.errorCode = Null, !.errorMessage = Null, !.errorId = Null]

\* error.html loads: after triggerError's navigation (no query string) or opened
\* by the user with or without one
DisplayError ==
    /\ displays < MaxDisplays
    /\ \E params \in UrlParams :
          /\ errPc = "nav" => params = NoParams
          /\ errView' = ViewOf(store, params)
    /\ store' = ErrorKeysRemoved(store)
    /\ errPc' = "error"
    /\ recorded' = <<>>
    /\ displays' = displays + 1
    /\ UNCHANGED <<page, currentJobId, panel, handledLog, triggers, CallbackVars, SignupVars>>
    /\ UNCHANGED <<form, picked, fileError, formError, formErrorShown, submitDisabled,
                   upPc, up, uuids, credsCalls, puts, LoginVars>>
    /\ UNCHANGED <<idToken, srv, appVisible, PollerVars, ListVars, authSent, RenderVars>>

\* goBack / goHome: the tab leaves the error page
LeaveErrorPage ==
    /\ errPc = "error"
    /\ errPc' = "app"
    /\ UNCHANGED <<page, store, currentJobId, panel, handledLog,
                   errView, recorded, triggers, displays, CallbackVars, SignupVars>>
    /\ UNCHANGED <<form, picked, fileError, formError, formErrorShown, submitDisabled,
                   upPc, up, uuids, credsCalls, puts, LoginVars>>
    /\ UNCHANGED <<idToken, srv, appVisible, PollerVars, ListVars, authSent, RenderVars>>

ErrorInit == MainInit /\ screen = "main"

ErrorNext ==
    \/ TriggerError
    \/ DisplayError
    \/ LeaveErrorPage

ErrorSpec == ErrorInit /\ [][ErrorNext]_vars

\* an error page display without a query string
DisplaysWithoutParams == displays' = displays + 1 /\ errView'.params = NoParams

\* C31: an error recorded with triggerError is consumed by exactly one display:
\* the next display without URL parameters shows the recorded code's error type
\* (generic for an unknown code) with the recorded message and id and removes
\* errorCode, errorMessage and errorId from the session store, so a later display
\* without URL parameters shows the generic error.
C31_RecordedErrorConsumedOnce ==
    [][ DisplaysWithoutParams =>
          /\ store'.errorCode = Null
          /\ store'.errorMessage = Null
          /\ store'.errorId = Null
          /\ IF recorded # <<>>
             THEN LET r == recorded[1]
                      type == ErrorType(StringOfCode(r.code))
                  IN  /\ errView'.type = type
                      /\ errView'.details = (IF Truthy(r.message) THEN r.message ELSE Null)
                      /\ errView'.text = (IF Truthy(r.message) THEN r.message
                                          ELSE ConfigMessage(type))
                      /\ errView'.id = (IF Truthy(r.id) THEN r.id ELSE Null)
             ELSE /\ errView'.type = "generic"
                  /\ errView'.details = Null
                  /\ errView'.text = ConfigMessage("generic")
                  /\ errView'.id = Null ]_vars

(***************************************************************************)
(* OAuth callback page: the entry function routes on the query string and  *)
(* exchangeCodeForTokens persists the tokens and the identity.             *)
(***************************************************************************)

\* query strings the identity provider or the user opens callback.html with
CallbackParams ==
    [code : {Null, "", "c1", "c2"}, error : {Null, "", "access_denied"},
     error_description : {Null, "d1"}]

\* the entry function's two early returns
CallbackRouteIgnoresError(params) ==
    IF ~Truthy(params.code) THEN "index" ELSE "exchange"

CallbackRoute(params) ==
    IF Truthy(params.error) THEN "error"
    ELSE IF ~Truthy(params.code) THEN "index"
    ELSE "exchange"

\* id tokens the endpoint can return: with email and name, with email and
\* cognito:username, with email only, without claims, and one that is no JWT
IdTokens == {"jwtFull", "jwtUser", "jwtEmail", "jwtBare", "garbage"}

\* JSON.parse(atob(id_token.split('.')[1])) throws
DecodeFails(tok) == tok = "garbage"

\* the claims of a decodable id token
JwtPayload(tok) ==
    CASE tok = "jwtFull"  -> [email |-> "e1@x", name |-> "n1", username |-> "cu1"]
      [] tok = "jwtUser"  -> [email |-> "e1@x", name |-> "", username |-> "cu1"]
      [] tok = "jwtEmail" -> [email |-> "e1@x", name |-> "", username |-> ""]
      [] OTHER            -> [email |-> "", name |-> "", username |-> ""]

\* answers of the token endpoint: no answer, a non-OK status, an OK body that is
\* not JSON, and an OK JSON body with or without tokens
TokenResponses ==
    {[kind |-> k, id_token |-> Null, access_token |-> Null] : k \in {"netfail", "http400", "notjson"}}
        \cup [kind : {"json"}, id_token : IdTokens \cup {Null, ""}, access_token : {Null, "at1"}]

ResponseOk(resp) == resp.kind \in {"notjson", "json"}

\* sessionStorage.setItem stores String(value)
StoredString(v) == IF v = Null THEN "undefined" ELSE v

\* the four setItem calls of exchangeCodeForTokens
TokensPersisted(st, resp) ==
    LET payload == JwtPayload(resp.id_token)
        email   == payload.email
    IN  [st EXCEPT !.id_token     = resp.id_token,
                   !.access_token = StoredString(resp.access_token),
                   !.userEmail    = email,
                   !.userName     = IF payload.name # "" THEN payload.name
                                    ELSE IF payload.username # "" THEN payload.username
                                    ELSE LocalPart(email)]

\* err.message of what exchangeCodeForTokens throws, "" when it completes
ExchangeError(resp) ==
    CASE resp.kind = "netfail" -> "Failed to fetch"
      [] resp.kind = "http400" -> "Token endpoint returned 400: invalid_grant"
      [] resp.kind = "notjson" -> "Unexpected token in JSON"
      [] ~Truthy(resp.id_token) -> "No ID token returned from Cognito."
      [] DecodeFails(resp.id_token) -> "The string to be decoded is not correctly encoded."
      [] OTHER -> ""

\* callback.html loads: the entry function up to its first suspension
CallbackLoad ==
    /\ cbPc = "closed"
    /\ \E params \in CallbackParams :
          /\ cbParams' = params
          /\ cbPc' = CallbackRoute(params)
          /\ cbError' = IF CallbackRoute(params) = "error"
                        THEN IF Truthy(params.error_description)
                             THEN "Sign in error: " \o params.error_description
                             ELSE "Sign in error: " \o params.error
                        ELSE ""
          /\ exchanged' = IF CallbackRoute(params) = "exchange"
                          THEN Append(exchanged, params.code) ELSE exchanged
    /\ UNCHANGED <<page, store, currentJobId, panel, handledLog, cbResp, ErrorVars, SignupVars>>
    /\ UNCHANGED <<form, picked, fileError, formError, formErrorShown, submitDisabled,
                   upPc, up, uuids, credsCalls, puts, LoginVars>>
    /\ UNCHANGED <<idToken, srv, appVisible, PollerVars, ListVars, authSent, RenderVars>>

\* the token endpoint settles: the rest of exchangeCodeForTokens and the catch
TokenResponse ==
    /\ cbPc = "exchange"
    /\ \E resp \in TokenResponses :
          /\ cbResp' = <<resp>>
          /\ IF ExchangeError(resp) = ""
             THEN /\ store' = TokensPersisted(store, resp)
                  /\ cbPc' = "app"
                  /\ cbError' = cbError
             ELSE /\ store' = store
                  /\ cbPc' = "error"
                  /\ cbError' = ExchangeError(resp)
    /\ UNCHANGED <<page, currentJobId, panel, handledLog, cbParams, exchanged, ErrorVars, SignupVars>>
    /\ UNCHANGED <<form, picked, fileError, formError, formErrorShown, submitDisabled,
                   upPc, up, uuids, credsCalls, puts, LoginVars>>
    /\ UNCHANGED <<idToken, srv, appVisible, PollerVars, ListVars, authSent, RenderVars>>

CallbackInit == MainInit /\ screen = "login"

CallbackNext ==
    \/ CallbackLoad
    \/ TokenResponse

CallbackSpec == CallbackInit /\ [][CallbackNext]_vars

\* the answer the token endpoint gave, once it has
Answered == cbResp # <<>>

\* C32: the callback persists tokens and identity and redirects to the app only
\* when the token endpoint answered OK with an id_token; with an error parameter,
\* a non-OK response or a missing id_token nothing is persisted and the error
\* state is shown; with neither code nor error no exchange is attempted and the
\* user is sent to the index page.
C32_CallbackPersistsOnlyOnSuccess ==
    /\ (store # ClearedStore \/ cbPc = "app") =>
          /\ Answered /\ ResponseOk(cbResp[1]) /\ Truthy(cbResp[1].id_token)
          /\ cbPc = "app"
          /\ store.id_token = cbResp[1].id_token
          /\ store.userEmail # Null /\ store.userName # Null /\ store.access_token # Null
    /\ (cbPc # "closed" /\ Truthy(cbParams.error)) =>
          /\ store = ClearedStore /\ cbPc = "error" /\ cbError # "" /\ exchanged = <<>>
    /\ (Answered /\ (~ResponseOk(cbResp[1]) \/ ~Truthy(cbResp[1].id_token))) =>
          /\ store = ClearedStore /\ cbPc = "error" /\ cbError # ""
    /\ (cbPc # "closed" /\ ~Truthy(cbParams.code) /\ ~Truthy(cbParams.error)) =>
          /\ exchanged = <<>> /\ cbPc = "index" /\ store = ClearedStore /\ cbError = ""

\* the exchange succeeded: tokens and the identity from the claims are stored
C32_Witness ==
    /\ cbPc = "app"
    /\ cbParams.code = "c1"
    /\ exchanged = <<"c1">>
    /\ store.id_token = "jwtUser"
    /\ store.access_token = "at1"
    /\ store.userEmail = "e1@x"
    /\ store.userName = "cu1"

(***************************************************************************)
(* Sign-up page: registration step, then email verification step.         *)
(* Typed values are sequences of characters so that trim, length and the  *)
(* email pattern are computed as the code computes them.                  *)
(***************************************************************************)

MaxSignups == 2
MaxVerifies == 2

IsSpace(c) == c = " "

RECURSIVE TrimStart(_)
TrimStart(str) ==
    IF str # <<>> /\ IsSpace(Head(str)) THEN TrimStart(Tail(str)) ELSE str

RECURSIVE TrimEnd(_)
TrimEnd(str) ==
    IF str # <<>> /\ IsSpace(str[Len(str)])
    THEN TrimEnd(SubSeq(str, 1, Len(str) - 1)) ELSE str

\* String.prototype.trim
Trim(str) == TrimEnd(TrimStart(str))

\* /^[^\s@]+@[^\s@]+\.[^\s@]+$/.test(email)
isValidEmail(email) ==
    \E at \in 1..Len(email) :
        /\ email[at] = "@"
        /\ at > 1
        /\ \A i \in 1..Len(email) : ~IsSpace(email[i]) /\ (email[i] = "@" => i = at)
        /\ \E dot \in (at + 2)..(Len(email) - 1) : email[dot] = "."

Password8 == <<"P", "a", "s", "s", "w", "0", "r", "d">>
Password7 == <<"P", "a", "s", "s", "w", "0", "r">>

\* values the user can have typed into the registration form
SignupForms ==
    [name     : {<<" ", " ">>, <<"A", "n", " ">>},
     email    : {<<"a", "@", "b", ".", "c", " ">>, <<"a", "@", "b">>, <<"a", " ", "@", "b", ".", "c">>},
     password : {Password8, Password7},
     confirm  : {Password8, Password7},
     terms    : BOOLEAN]

\* the field error ids the five checks of the submit handler set
SignupFieldErrors(f) ==
    LET name  == Trim(f.name)
        email == Trim(f.email)
    IN  (IF name = <<>> THEN {"name-error"} ELSE {})
        \cup (IF email = <<>> \/ ~isValidEmail(email) THEN {"signup-email-error"} ELSE {})
        \cup (IF f.password = <<>> \/ Len(f.password) < 8 THEN {"signup-password-error"} ELSE {})
        \cup (IF f.password # f.confirm THEN {"signup-password-confirm-error"} ELSE {})
        \cup (IF ~f.terms THEN {"terms-error"} ELSE {})

\* variant: the terms checkbox is not checked
SignupFieldErrorsNoTerms(f) == SignupFieldErrors(f) \ {"terms-error"}

\* the field errors the submit handler sets; valid when there are none
SignupCheck(f) == SignupFieldErrors(f)

\* errors the identity provider reports (code, message)
ProviderErrors ==
    {[code |-> "UsernameExistsException", message |-> "exists"],
     [code |-> "CodeMismatchException", message |-> "mismatch"],
     [code |-> "NetworkError", message |-> "Network error"],
     [code |-> "UnknownError", message |-> ""]}

friendlyError(err) ==
    CASE err.code = "UsernameExistsException" ->
             "An account with this email already exists. Try signing in instead."
      [] err.code = "InvalidPasswordException" ->
             "Password must include uppercase, lowercase, a number, and a special character."
      [] err.code = "CodeMismatchException" ->
             "Incorrect verification code. Please check your email and try again."
      [] err.code = "ExpiredCodeException" ->
             "That code has expired. Click \"Resend code\" to get a new one."
      [] err.code \in {"TooManyRequestsException", "LimitExceededException"} ->
             "Too many requests. Please wait a moment and try again."
      [] OTHER -> IF err.message # "" THEN err.message
                  ELSE "Something went wrong. Please try again."

Ok == [code |-> "", message |-> ""]
Pending == [code |-> "pending", message |-> ""]

\* indexes of the provider calls of one operation that have not settled
Outstanding(op) ==
    {i \in 1..Len(providerCalls) :
        providerCalls[i].op = op /\ providerCalls[i].result = Pending}

SignupRest == <<page, store, currentJobId, panel, handledLog, ErrorVars, CallbackVars>>

\* the registration form is submitted
SignupSubmit ==
    /\ suPage = "signup"
    /\ signupStepShown
    /\ ~signupBtnDisabled
    /\ submits < MaxSignups
    /\ submits' = submits + 1
    /\ signupError' = ""
    /\ \E f \in SignupForms :
          /\ lastForm' = <<f>>
          /\ fieldErrors' = SignupCheck(f)
          /\ IF SignupCheck(f) # {}
             THEN UNCHANGED <<signupBtnDisabled, providerCalls>>
             ELSE /\ signupBtnDisabled' = TRUE
                  /\ providerCalls' = Append(providerCalls,
                         [op |-> "signUp", user |-> Trim(f.email), arg |-> f.password,
                          name |-> Trim(f.name), result |-> Pending])
    /\ UNCHANGED <<signupStepShown, verifyStepShown, pendingCognitoUser, verifyError,
                   verifyBtnDisabled, resendDisabled, verifies, signupSuccess, suPage>>
    /\ UNCHANGED SignupRest
    /\ UNCHANGED <<form, picked, fileError, formError, formErrorShown, submitDisabled,
                   upPc, up, uuids, credsCalls, puts, LoginVars>>
    /\ UNCHANGED <<idToken, srv, appVisible, PollerVars, ListVars, authSent, RenderVars>>

\* variant: the verification step is revealed whatever the provider answered
StepsAfterSignUpAlwaysAdvance(err, user) ==
    [signupStepShown |-> FALSE, verifyStepShown |-> TRUE,
     pendingCognitoUser |-> IF err = Ok THEN user ELSE pendingCognitoUser]

\* the steps and the pending user after the signUp callback
StepsAfterSignUp(err, user) ==
    IF err # Ok
    THEN [signupStepShown |-> signupStepShown, verifyStepShown |-> verifyStepShown,
          pendingCognitoUser |-> pendingCognitoUser]
    ELSE [signupStepShown |-> FALSE, verifyStepShown |-> TRUE, pendingCognitoUser |-> user]

\* userPool.signUp calls back
SignUpSettles ==
    /\ \E i \in Outstanding("signUp"), err \in {Ok} \cup ProviderErrors :
          /\ providerCalls' = [providerCalls EXCEPT ![i].result = err]
          /\ signupError' = IF err # Ok THEN friendlyError(err) ELSE signupError
          /\ LET after == StepsAfterSignUp(err, providerCalls[i].user)
             IN  /\ signupStepShown' = after.signupStepShown
                 /\ verifyStepShown' = after.verifyStepShown
                 /\ pendingCognitoUser' = after.pendingCognitoUser
    /\ signupBtnDisabled' = FALSE
    /\ UNCHANGED <<verifyError, fieldErrors, verifyBtnDisabled, resendDisabled, lastForm,
                   submits, verifies, signupSuccess, suPage>>
    /\ UNCHANGED SignupRest
    /\ UNCHANGED <<form, picked, fileError, formError, formErrorShown, submitDisabled,
                   upPc, up, uuids, credsCalls, puts, LoginVars>>
    /\ UNCHANGED <<idToken, srv, appVisible, PollerVars, ListVars, authSent, RenderVars>>

\* values typed into #verify-code
VerifyCodes == {<<" ">>, <<"1", "2", "3", "4", "5", "6">>, <<"0", "0", "0", "0", "0", "0", " ">>}

\* the verification form is submitted; without a pending user the call throws
\* after setButtonLoading and the button stays disabled
VerifySubmit ==
    /\ suPage = "signup"
    /\ verifyStepShown
    /\ ~verifyBtnDisabled
    /\ verifies < MaxVerifies
    /\ verifies' = verifies + 1
    /\ signupError' = ""
    /\ \E code \in VerifyCodes :
          IF Trim(code) = <<>>
          THEN /\ fieldErrors' = {"verify-code-error"}
               /\ UNCHANGED <<verifyBtnDisabled, providerCalls>>
          ELSE /\ fieldErrors' = {}
               /\ verifyBtnDisabled' = TRUE
               /\ providerCalls' = IF pendingCognitoUser = Null THEN providerCalls
                                   ELSE Append(providerCalls,
                                            [op |-> "confirmRegistration",
                                             user |-> pendingCognitoUser, arg |-> Trim(code),
                                             name |-> <<>>, result |-> Pending])
    /\ UNCHANGED <<signupStepShown, verifyStepShown, pendingCognitoUser, verifyError,
                   signupBtnDisabled, resendDisabled, lastForm, submits, signupSuccess, suPage>>
    /\ UNCHANGED SignupRest
    /\ UNCHANGED <<form, picked, fileError, formError, formErrorShown, submitDisabled,
                   upPc, up, uuids, credsCalls, puts, LoginVars>>
    /\ UNCHANGED <<idToken, srv, appVisible, PollerVars, ListVars, authSent, RenderVars>>

\* the confirmRegistration callback goes on to the redirect
ConfirmRedirects(err) == err = Ok

\* confirmRegistration calls back
ConfirmSettles ==
    /\ \E i \in Outstanding("confirmRegistration"), err \in {Ok} \cup ProviderErrors :
          /\ providerCalls' = [providerCalls EXCEPT ![i].result = err]
          /\ IF ConfirmRedirects(err)
             THEN /\ signupSuccess' = "Account verified! Please sign in."
                  /\ suPage' = "index"
                  /\ verifyError' = verifyError
             ELSE /\ verifyError' = [text |-> friendlyError(err), type |-> "danger"]
                  /\ UNCHANGED <<signupSuccess, suPage>>
    /\ verifyBtnDisabled' = FALSE
    /\ UNCHANGED <<signupStepShown, verifyStepShown, pendingCognitoUser, signupError,
                   fieldErrors, signupBtnDisabled, resendDisabled, lastForm, submits, verifies>>
    /\ UNCHANGED SignupRest
    /\ UNCHANGED <<form, picked, fileError, formError, formErrorShown, submitDisabled,
                   upPc, up, uuids, credsCalls, puts, LoginVars>>
    /\ UNCHANGED <<idToken, srv, appVisible, PollerVars, ListVars, authSent, RenderVars>>

\* #resend-code-btn is clicked
ResendClick ==
    /\ suPage = "signup"
    /\ verifyStepShown
    /\ ~resendDisabled
    /\ verifies < MaxVerifies
    /\ verifies' = verifies + 1
    /\ IF pendingCognitoUser = Null
       THEN UNCHANGED <<resendDisabled, providerCalls>>
       ELSE /\ resendDisabled' = TRUE
            /\ providerCalls' = Append(providerCalls,
                   [op |-> "resendConfirmationCode", user |-> pendingCognitoUser,
                    arg |-> <<>>, name |-> <<>>, result |-> Pending])
    /\ UNCHANGED <<signupStepShown, verifyStepShown, pendingCognitoUser, signupError,
                   verifyError, fieldErrors, signupBtnDisabled, verifyBtnDisabled,
                   lastForm, submits, signupSuccess, suPage>>
    /\ UNCHANGED SignupRest
    /\ UNCHANGED <<form, picked, fileError, formError, formErrorShown, submitDisabled,
                   upPc, up, uuids, credsCalls, puts, LoginVars>>
    /\ UNCHANGED <<idToken, srv, appVisible, PollerVars, ListVars, authSent, RenderVars>>

\* resendConfirmationCode calls back
ResendSettles ==
    /\ \E i \in Outstanding("resendConfirmationCode"), err \in {Ok} \cup ProviderErrors :
          /\ providerCalls' = [providerCalls EXCEPT ![i].result = err]
          /\ verifyError' = IF err # Ok
                            THEN [text |-> friendlyError(err), type |-> "danger"]
                            ELSE [text |-> "A new code has been sent to your email.",
                                  type |-> "success"]
    /\ resendDisabled' = FALSE
    /\ UNCHANGED <<signupStepShown, verifyStepShown, pendingCognitoUser, signupError,
                   fieldErrors, signupBtnDisabled, verifyBtnDisabled, lastForm, submits,
                   verifies, signupSuccess, suPage>>
    /\ UNCHANGED SignupRest
    /\ UNCHANGED <<form, picked, fileError, formError, formErrorShown, submitDisabled,
                   upPc, up, uuids, credsCalls, puts, LoginVars>>
    /\ UNCHANGED <<idToken, srv, appVisible, PollerVars, ListVars, authSent, RenderVars>>

SignupInit == MainInit /\ screen = "login"

SignupNext ==
    \/ SignupSubmit
    \/ SignUpSettles
    \/ VerifySubmit
    \/ ConfirmSettles
    \/ ResendClick
    \/ ResendSettles

SignupSpec == SignupInit /\ [][SignupNext]_vars

\* the five registration checks, on the values as typed
NamePresent(f) == \E i \in 1..Len(f.name) : f.name[i] # " "
EmailWellFormed(f) == isValidEmail(Trim(f.email))
PasswordLongEnough(f) == Len(f.password) >= 8
ConfirmationMatches(f) == f.confirm = f.password
AllChecksPass(f) ==
    NamePresent(f) /\ EmailWellFormed(f) /\ PasswordLongEnough(f)
        /\ ConfirmationMatches(f) /\ f.terms

SignUpCalls(calls) == {i \in 1..Len(calls) : calls[i].op = "signUp"}

\* C33: the provider's sign-up operation is called only when every registration
\* check passes (name present, well-formed email, password of at least 8
\* characters, matching confirmation, terms accepted); if any check fails no
\* provider call is made and the page stays on the registration step.
C33_SignUpOnlyWhenValid ==
    [][ /\ SignUpCalls(providerCalls') # SignUpCalls(providerCalls) =>
              (submits' = submits + 1 /\ AllChecksPass(lastForm'[1]))
        /\ (submits' = submits + 1 /\ ~AllChecksPass(lastForm'[1])) =>
              /\ providerCalls' = providerCalls
              /\ signupStepShown' /\ ~verifyStepShown'
              /\ suPage' = "signup" ]_vars

\* a rejected submit was followed by an accepted one, whose call is outstanding
C33_Witness ==
    /\ submits = 2
    /\ fieldErrors = {}
    /\ Len(providerCalls) = 1
    /\ providerCalls[1].op = "signUp"
    /\ providerCalls[1].user = <<"a", "@", "b", ".", "c">>
    /\ providerCalls[1].name = <<"A", "n">>
    /\ providerCalls[1].result = Pending
    /\ signupBtnDisabled
    /\ signupStepShown

SucceededSignUps ==
    {i \in 1..Len(providerCalls) :
        providerCalls[i].op = "signUp" /\ providerCalls[i].result = Ok}

\* the call with index i settles in this step with an error
FailsNow(i, op) ==
    /\ i <= Len(providerCalls)
    /\ providerCalls[i].op = op
    /\ providerCalls[i].result = Pending
    /\ providerCalls'[i].result \notin {Ok, Pending}

\* C38: the verification step is visible only after a sign-up call has succeeded,
\* so whenever a code can be submitted or a resend requested there is a pending
\* user from that sign-up; a failed sign-up leaves the registration step shown,
\* and a failed verification leaves the verification step shown for retry
\* without redirecting.
C38_VerifyStepNeedsPendingUser ==
    [][ /\ verifyStepShown' =>
              \E i \in 1..Len(providerCalls') :
                  /\ providerCalls'[i].op = "signUp"
                  /\ providerCalls'[i].result = Ok
                  /\ pendingCognitoUser' = providerCalls'[i].user
        /\ verifies' = verifies + 1 =>
              /\ pendingCognitoUser # Null
              /\ \E i \in SucceededSignUps : pendingCognitoUser = providerCalls[i].user
        /\ \A i \in 1..Len(providerCalls) :
              /\ FailsNow(i, "signUp") =>
                    (signupStepShown' /\ ~verifyStepShown' /\ pendingCognitoUser' = Null)
              /\ FailsNow(i, "confirmRegistration") =>
                    /\ verifyStepShown' /\ ~verifyBtnDisabled'
                    /\ suPage' = "signup" /\ signupSuccess' = Null ]_vars

\* a first verification failed and the retry is outstanding on the same user
C38_Witness ==
    /\ verifyStepShown /\ ~signupStepShown
    /\ Len(providerCalls) = 3
    /\ providerCalls[1].op = "signUp" /\ providerCalls[1].result = Ok
    /\ providerCalls[2].op = "confirmRegistration"
    /\ providerCalls[2].result.code = "CodeMismatchException"
    /\ providerCalls[3].op = "confirmRegistration" /\ providerCalls[3].result = Pending
    /\ providerCalls[3].user = pendingCognitoUser
    /\ suPage = "signup"

(***************************************************************************)
(* Main page session checks: checkAuthState runs at page load and whenever *)
(* the tab becomes visible; getSession answers through a callback.         *)
(***************************************************************************)

MaxChecks == 2

\* what getSession can deliver: an error, a session that is not valid, or a
\* valid session with its id token's claims
SessionResults == {"error", "invalid", "valid"}

\* !(err || !session.isValid())
SessionUsable(result) == result = "valid"

\* visibilitychange with visibilityState 'visible': checkAuthState up to getSession
VisibilityChange ==
    /\ page = "main"
    /\ checks < MaxChecks
    /\ checks' = checks + 1
    /\ IF sdkSession = "none"
       THEN /\ screen' = "login"
            /\ ShowLoginScreen
            /\ loginError' = ""
            /\ form' = EmptyForm
            /\ picked' = NoFile
            /\ UNCHANGED pendingChecks
       ELSE /\ pendingChecks' = pendingChecks + 1
            /\ UNCHANGED <<screen, loginScreenHidden, mainScreenHidden, loginError,
                           form, picked>>
    /\ UNCHANGED <<store, sdkSession, firstCheckDone, sinceSignOut, delivered,
                   loginPc, loginDisabled>>
    /\ UNCHANGED <<page, JobsPageVars, RenderVars, fileError, formError, formErrorShown,
                   submitDisabled, upPc, up, uuids, credsCalls, puts>>

\* getSession calls back: a stored valid session answers as valid, an expired
\* one is refreshed over the network and the refreshed tokens are stored again
GetSessionSettles ==
    /\ page = "main"
    /\ pendingChecks > 0
    /\ pendingChecks' = pendingChecks - 1
    /\ firstCheckDone' = TRUE
    /\ \E result \in SessionResults :
          /\ sdkSession = "valid" => result = "valid"
          /\ delivered' = result
          /\ IF SessionUsable(result)
             THEN \E p \in Payloads :
                     /\ store' = StoreUserInfo(store, p)
                     /\ screen' = "main"
                     /\ ShowMainScreen
                     /\ sdkSession' = "valid"
                     /\ UNCHANGED <<loginError, form, picked>>
             ELSE /\ screen' = "login"
                  /\ ShowLoginScreen
                  /\ loginError' = ""
                  /\ form' = EmptyForm
                  /\ picked' = NoFile
                  /\ UNCHANGED <<store, sdkSession>>
    /\ UNCHANGED <<checks, sinceSignOut, loginPc, loginDisabled>>
    /\ UNCHANGED <<page, JobsPageVars, RenderVars, fileError, formError, formErrorShown,
                   submitDisabled, upPc, up, uuids, credsCalls, puts>>

\* the stored tokens pass their expiry time
TokensExpire ==
    /\ page = "main"
    /\ sdkSession = "valid"
    /\ sdkSession' = "expired"
    /\ UNCHANGED <<pendingChecks, checks, firstCheckDone, loginScreenHidden,
                   mainScreenHidden, sinceSignOut, delivered, screen, loginPc,
                   loginDisabled, loginError, store, form, picked>>
    /\ UNCHANGED <<page, JobsPageVars, RenderVars, fileError, formError, formErrorShown,
                   submitDisabled, upPc, up, uuids, credsCalls, puts>>

\* the main page after its DOMContentLoaded handler: without a stored user
\* checkAuthState has shown the login screen, with one its getSession call is
\* outstanding and the screens are as the document declares them
SessionInit ==
    /\ page = "main"
    /\ store = ClearedStore
    /\ sdkSession \in {"none", "valid", "expired"}
    /\ screen \in {"login", "none"}
    /\ sdkSession = "none" => screen = "login"
    /\ pendingChecks = IF sdkSession = "none" THEN 0 ELSE 1
    /\ firstCheckDone = (sdkSession = "none")
    /\ loginScreenHidden = (screen # "login")
    /\ mainScreenHidden = TRUE
    /\ checks = 0
    /\ sinceSignOut = FALSE
    /\ delivered = "nothing"
    /\ form = EmptyForm
    /\ picked = NoFile
    /\ fileError = ""
    /\ formError = ""
    /\ formErrorShown = FALSE
    /\ submitDisabled = FALSE
    /\ upPc = "idle"
    /\ up = NoUpload
    /\ uuids = 0
    /\ credsCalls = 0
    /\ puts = <<>>
    /\ loginPc = "idle"
    /\ loginDisabled = FALSE
    /\ loginError = ""
    /\ PagesIdle
    /\ srv = AbsentJob
    /\ JobsIdle
    /\ RenderIdle
    /\ srvJobs = <<>>

SessionNext ==
    \/ VisibilityChange
    \/ GetSessionSettles
    \/ TokensExpire
    \/ HandleLogin
    \/ AuthenticateUserSettles
    \/ HandleLogout

SessionSpec == SessionInit /\ [][SessionNext]_vars

NoIdentity(st) == st.userId = Null /\ st.userEmail = Null /\ st.userName = Null

\* C36: after a confirmed sign-out on the main page the login screen stays
\* displayed and the session store holds no user identity until a new login
\* succeeds, even when a session check started earlier delivers its result
\* after the sign-out.
C36_SignedOutStaysSignedOut ==
    sinceSignOut =>
        /\ ~loginScreenHidden
        /\ mainScreenHidden
        /\ NoIdentity(store)

====
